---- MODULE Spec2Model ----
(***************************************************************************)
(* A model of the C# analyzer provider: the query pattern (Search), the    *)
(* symbol graph, the ingestion of source and dependency files into the     *)
(* store, the project life cycle driven by the Init RPC, and the Evaluate  *)
(* RPC with its source-only filter.                                        *)
(*                                                                         *)
(* Strings that the code splits or matches are sequences of tokens; the    *)
(* token "." is the separator of dotted names and "*" the wildcard.        *)
(***************************************************************************)
EXTENDS Integers, Sequences, FiniteSets, TLC

(***************************************************************************)
(* Generic helpers on sequences.                                           *)
(***************************************************************************)
Range(s) == {s[i] : i \in 1..Len(s)}

Last(s) == s[Len(s)]

Contains(s, c) == \E i \in 1..Len(s) : s[i] = c

RECURSIVE SeqOfSet(_)
SeqOfSet(S) ==
    IF S = {} THEN <<>>
    ELSE LET x == CHOOSE y \in S : TRUE IN <<x>> \o SeqOfSet(S \ {x})

\* every ordering of the elements of a finite set
Orderings(S) ==
    {s \in [1..Cardinality(S) -> S] : \A i, j \in 1..Cardinality(S) : i # j => s[i] # s[j]}

RECURSIVE Flatten(_)
Flatten(ss) == IF ss = <<>> THEN <<>> ELSE Head(ss) \o Flatten(Tail(ss))

(***************************************************************************)
(* str::split("."): the parts between separators; a string without a       *)
(* separator is one part, an empty string is one empty part.               *)
(***************************************************************************)
RECURSIVE SplitDot(_)
SplitDot(s) ==
    IF \A i \in 1..Len(s) : s[i] # "." THEN <<s>>
    ELSE LET k == CHOOSE i \in 1..Len(s) : s[i] = "." /\ \A j \in 1..(i - 1) : s[j] # "."
         IN <<SubSeq(s, 1, k - 1)>> \o SplitDot(SubSeq(s, k + 1, Len(s)))

\* str::replace of every star by the parenthesised dot-star group
RECURSIVE ReplaceStar(_)
ReplaceStar(s) ==
    IF s = <<>> THEN <<>>
    ELSE IF Head(s) = "*" THEN <<"(", ".", "*", ")">> \o ReplaceStar(Tail(s))
    ELSE <<Head(s)>> \o ReplaceStar(Tail(s))

(***************************************************************************)
(* Regex::new on the pattern language the code can produce: literals, the  *)
(* parenthesised dot-star group, the bare dot-star, and an opening square  *)
(* bracket, which starts a character class that nothing closes (a syntax   *)
(* error).  A compiled regex is a sequence of items: "ANY" for dot-star,   *)
(* any other token for itself as a literal.                                *)
(***************************************************************************)
NoRegex == [ok |-> FALSE, items |-> <<>>]

RECURSIVE RegexItems(_)
RegexItems(src) ==
    IF src = <<>> THEN <<>>
    ELSE IF Len(src) >= 4 /\ SubSeq(src, 1, 4) = <<"(", ".", "*", ")">>
         THEN <<"ANY">> \o RegexItems(SubSeq(src, 5, Len(src)))
    ELSE IF Len(src) >= 2 /\ SubSeq(src, 1, 2) = <<".", "*">>
         THEN <<"ANY">> \o RegexItems(SubSeq(src, 3, Len(src)))
    ELSE <<Head(src)>> \o RegexItems(Tail(src))

RegexNew(src) ==
    IF Contains(src, "[") THEN NoRegex
    ELSE [ok |-> TRUE, items |-> RegexItems(src)]

\* the whole of s is matched by the items
RECURSIVE FullMatch(_, _)
FullMatch(items, s) ==
    IF items = <<>> THEN s = <<>>
    ELSE IF Head(items) = "ANY"
         THEN \E k \in 0..Len(s) : FullMatch(Tail(items), SubSeq(s, k + 1, Len(s)))
    ELSE s # <<>> /\ Head(s) = Head(items) /\ FullMatch(Tail(items), Tail(s))

\* Regex::is_match: some substring of s is matched (the regex is not anchored)
IsMatch(items, s) ==
    \E i \in 1..(Len(s) + 1) : \E j \in (i - 1)..Len(s) : FullMatch(items, SubSeq(s, i, j))

(***************************************************************************)
(* Search::create_search: one SearchPart per dotted part of the query; a   *)
(* part that contains a star is compiled, a lone star to dot-star and any  *)
(* other by ReplaceStar; a part without a star is never compiled.          *)
(* The first part that does not compile makes the whole search an error.   *)
(***************************************************************************)
SearchPartOf(part) ==
    IF Contains(part, "*")
    THEN [part |-> part, hasRegex |-> TRUE,
          regex |-> IF part = <<"*">> THEN RegexNew(<<".", "*">>)
                    ELSE RegexNew(ReplaceStar(part))]
    ELSE [part |-> part, hasRegex |-> FALSE, regex |-> NoRegex]

\* create_search with the result of Regex::new not looked at: every part is kept
create_search_unchecked(query) ==
    [ok |-> TRUE,
     parts |-> [i \in 1..Len(SplitDot(query)) |-> SearchPartOf(SplitDot(query)[i])]]

create_search(query) ==
    LET Checked(parts) ==
            IF \E i \in 1..Len(parts) : parts[i].hasRegex /\ ~parts[i].regex.ok
            THEN [ok |-> FALSE, parts |-> <<>>]
            ELSE [ok |-> TRUE, parts |-> parts]
    IN Checked([i \in 1..Len(SplitDot(query)) |-> SearchPartOf(SplitDot(query)[i])])

\* SearchPart::matches
matches(sp, s) == IF sp.hasRegex THEN IsMatch(sp.regex.items, s) ELSE sp.part = s

\* the loop of Search::partial_namespace from the i-th component of the symbol on: the
\* loop ends when the components are exhausted or the pattern has no part at that
\* position (break), and returns false at the first component its part does not match
RECURSIVE partial_namespace_from(_, _, _)
partial_namespace_from(parts, sym, i) ==
    IF i > Len(sym) THEN TRUE
    ELSE IF Len(parts) <= i - 1 THEN TRUE
    ELSE IF ~matches(parts[i], sym[i]) THEN FALSE
    ELSE partial_namespace_from(parts, sym, i + 1)

\* partial_namespace without the break: a symbol longer than the pattern is refused
partial_namespace_no_break(search, symbol) ==
    /\ Len(SplitDot(symbol)) <= Len(search.parts)
    /\ partial_namespace_from(search.parts, SplitDot(symbol), 1)

\* Search::partial_namespace
partial_namespace(search, symbol) == partial_namespace_from(search.parts, SplitDot(symbol), 1)

\* the loop of Search::match_namespace, written as that of partial_namespace
RECURSIVE match_namespace_from(_, _, _)
match_namespace_from(parts, sym, i) ==
    IF i > Len(sym) THEN TRUE
    ELSE IF Len(parts) <= i - 1 THEN TRUE
    ELSE IF ~matches(parts[i], sym[i]) THEN FALSE
    ELSE match_namespace_from(parts, sym, i + 1)

\* Search::match_namespace
match_namespace(search, symbol) == match_namespace_from(search.parts, SplitDot(symbol), 1)

\* match_symbol deciding by the first part of the pattern
match_symbol_first(search, symbol) == matches(search.parts[1], symbol)

\* Search::match_symbol: the last part decides
match_symbol(search, symbol) == matches(search.parts[Len(search.parts)], symbol)

(***************************************************************************)
(* Paths are sequences of components: "/" first for an absolute path, the  *)
(* extension last.                                                         *)
(***************************************************************************)
IsPrefix(p, q) == Len(p) <= Len(q) /\ SubSeq(q, 1, Len(p)) = p

\* LanguageConfiguration::matches_file with file_types = ["cs"]
matches_file(path) == path[Len(path)] = "cs"

\* Url::from_file_path: an error unless the path is absolute
UrlFromFilePath(path) ==
    IF path[1] = "/" THEN [ok |-> TRUE, url |-> <<"file://">> \o path]
    ELSE [ok |-> FALSE, url |-> <<>>]

BUILTINS_FILENAME == <<"<builtins>">>

\* SourceType::SOURCE_STRING and SourceType::DEPENDENCY_STRING
SOURCE_STRING == <<"konveyor", ".", "io/source_type=source">>

DEPENDENCY_STRING == <<"konveyor", ".", "io/source_type=dependency">>

\* the precedence of the edge from a definition to its parent in the qualified name
FqdnPrecedence == 10

\* loader::sha1: the base64 (no padding) of the SHA-1 digest of the bytes read
sha1(source) == <<"sha1-base64-nopad", source>>

(***************************************************************************)
(* StackGraph: files, interned symbols, nodes (handles are positions) and  *)
(* edges.  A node has the file that owns it, a symbol handle (0: none), a  *)
(* syntax kind ("": no source info) and the start line of its span.        *)
(***************************************************************************)
StackGraphNew == [files |-> <<>>, symbols |-> <<>>, nodes |-> <<>>, edges |-> {}]

\* StackGraph::add_symbol: equal strings share a handle
SymbolHandle(g, str) ==
    IF \E i \in 1..Len(g.symbols) : g.symbols[i] = str
    THEN CHOOSE i \in 1..Len(g.symbols) : g.symbols[i] = str
    ELSE Len(g.symbols) + 1

add_symbol(g, str) ==
    IF \E i \in 1..Len(g.symbols) : g.symbols[i] = str THEN g
    ELSE [g EXCEPT !.symbols = Append(@, str)]

get_file(g, path) == \E i \in 1..Len(g.files) : g.files[i] = path

\* the handles of the nodes of a file, in creation order
nodes_for_file(g, path) ==
    SelectSeq([i \in 1..Len(g.nodes) |-> i], LAMBDA i : g.nodes[i].file = path)

outgoing_edges(g, node) == {e \in g.edges : e.source = node}

SymbolOf(g, node) ==
    IF g.nodes[node].symbol \in 1..Len(g.symbols) THEN g.symbols[g.nodes[node].symbol]
    ELSE <<>>

(***************************************************************************)
(* A file's subgraph in serialised form: its nodes in creation order, each *)
(* with its symbol as a string, and its edges between positions of that    *)
(* sequence.  Loading it into a graph adds the file, interns each symbol   *)
(* in node order and appends the nodes.                                    *)
(***************************************************************************)
PositionIn(seq, x) == CHOOSE i \in 1..Len(seq) : seq[i] = x

to_serializable_file(g, path) ==
    LET hs == nodes_for_file(g, path)
    IN [nodes |-> [i \in 1..Len(hs) |->
                     [hasSymbol |-> g.nodes[hs[i]].symbol # 0,
                      symbol |-> SymbolOf(g, hs[i]),
                      kind |-> g.nodes[hs[i]].kind,
                      line |-> g.nodes[hs[i]].line]],
        edges |-> {[source |-> PositionIn(hs, e.source), sink |-> PositionIn(hs, e.sink),
                    precedence |-> e.precedence] :
                   e \in {x \in g.edges : Contains(hs, x.source) /\ Contains(hs, x.sink)}}]

RECURSIVE InternAll(_, _)
InternAll(g, snodes) ==
    IF snodes = <<>> THEN g
    ELSE InternAll(IF Head(snodes).hasSymbol THEN add_symbol(g, Head(snodes).symbol) ELSE g,
                   Tail(snodes))

load_into(g, path, sub) ==
    LET g1 == InternAll(g, sub.nodes)
        base == Len(g.nodes)
    IN [files |-> Append(g.files, path),
        symbols |-> g1.symbols,
        nodes |-> g.nodes \o [i \in 1..Len(sub.nodes) |->
                     [file |-> path,
                      symbol |-> IF sub.nodes[i].hasSymbol
                                 THEN SymbolHandle(g1, sub.nodes[i].symbol) ELSE 0,
                      kind |-> sub.nodes[i].kind,
                      line |-> sub.nodes[i].line]],
        edges |-> g.edges \cup {[source |-> base + e.source, sink |-> base + e.sink,
                                 precedence |-> e.precedence] : e \in sub.edges}]

\* the graph that holds the given files' subgraphs, loaded in the given order
RECURSIVE LoadAll(_, _, _)
LoadAll(g, order, subOf) ==
    IF order = <<>> THEN g
    ELSE LoadAll(load_into(g, Head(order), subOf[Head(order)]), Tail(order), subOf)

\* StackGraph::add_from_graph: the other graph's files, file by file
RECURSIVE add_from_graph(_, _, _)
add_from_graph(g, other, k) ==
    IF k > Len(other.files) THEN g
    ELSE add_from_graph(load_into(g, other.files[k], to_serializable_file(other, other.files[k])),
                        other, k + 1)

(***************************************************************************)
(* The Builder (the tag-query rules run on a parse of the file).  What it  *)
(* produces for a file is given per content: "use" is a file that imports  *)
(* namespace N and names K and K.M, "def" declares namespace N with class  *)
(* K and method M, "empty" has no declarations, and "bad" is a file the    *)
(* Builder fails on.  Position 0 of an edge is the injected source-type    *)
(* node, which the rules attach to the compilation unit.                   *)
(***************************************************************************)
TNode(sym, kind, line) == [hasSymbol |-> TRUE, symbol |-> sym, kind |-> kind, line |-> line]

TEdge(a, b, prec) == [source |-> a, sink |-> b, precedence |-> prec]

CompUnit == TNode(<<"<cu>">>, "comp_unit", 1)

Template(content) ==
    CASE content = "use" ->
           [nodes |-> <<CompUnit, TNode(<<"N">>, "import", 1), TNode(<<"K">>, "name", 2),
                        TNode(<<"K", ".", "M">>, "name", 3)>>,
            edges |-> {TEdge(0, 1, 0), TEdge(1, 2, 0), TEdge(1, 3, 0), TEdge(1, 4, 0)}]
      [] content = "def" ->
           [nodes |-> <<CompUnit, TNode(<<"N">>, "namespace_declaration", 1),
                        TNode(<<"K">>, "class_def", 2), TNode(<<"M">>, "method_name", 3)>>,
            edges |-> {TEdge(0, 1, 0), TEdge(1, 2, 0), TEdge(2, 3, 0), TEdge(3, 4, 0),
                       TEdge(3, 2, FqdnPrecedence), TEdge(4, 3, FqdnPrecedence)}]
      [] OTHER -> [nodes |-> <<CompUnit>>, edges |-> {TEdge(0, 1, 0)}]

\* builder.build: the template's nodes appended after the injected node `marker`
BuilderBuild(g, path, content, marker) ==
    IF content = "bad" THEN [ok |-> FALSE, graph |-> g]
    ELSE LET t == Template(content)
             g1 == InternAll(g, t.nodes)
             at(k) == IF k = 0 THEN marker ELSE Len(g.nodes) + k
         IN [ok |-> TRUE,
             graph |-> [g1 EXCEPT
                 !.nodes = g.nodes \o [i \in 1..Len(t.nodes) |->
                              [file |-> path, symbol |-> SymbolHandle(g1, t.nodes[i].symbol),
                               kind |-> t.nodes[i].kind, line |-> t.nodes[i].line]],
                 !.edges = g.edges \cup {TEdge(at(e.source), at(e.sink), e.precedence) :
                                         e \in t.edges}]]

\* SourceType::load_node_to_graph: a pop-symbol node carrying the handle the source type caches
load_node_to_graph(source_type, g, path) ==
    [g EXCEPT !.nodes = Append(@, [file |-> path, symbol |-> source_type.symbol_handle,
                                   kind |-> "", line |-> 0])]

(***************************************************************************)
(* SourceNodeLanguageConfiguration::new: the builtins graph gets the two   *)
(* marker symbols first, then a node for each, then the builtins source    *)
(* (an empty file) built with the source node injected.                    *)
(***************************************************************************)
SourceTypeSource(h) == [type |-> "Source", symbol_handle |-> h]

SourceTypeDependency(h) == [type |-> "Dependency", symbol_handle |-> h]

get_string(source_type) ==
    IF source_type.type = "Source" THEN SOURCE_STRING ELSE DEPENDENCY_STRING

SourceNodeLanguageConfigurationNew ==
    LET b0 == [StackGraphNew EXCEPT !.files = <<BUILTINS_FILENAME>>]
        b1 == add_symbol(b0, SOURCE_STRING)
        b2 == add_symbol(b1, DEPENDENCY_STRING)
        src == SourceTypeSource(SymbolHandle(b1, SOURCE_STRING))
        dep == SourceTypeDependency(SymbolHandle(b2, DEPENDENCY_STRING))
        b3 == load_node_to_graph(src, b2, BUILTINS_FILENAME)
        b4 == load_node_to_graph(dep, b3, BUILTINS_FILENAME)
    IN [source_type_node_info |-> src,
        dependnecy_type_node_info |-> dep,
        builtins |-> BuilderBuild(b4, BUILTINS_FILENAME, "empty", Len(b3.nodes)).graph]

\* SourceType::load_symbols_into_graph
load_symbols_into_graph(g) == add_symbol(add_symbol(g, SOURCE_STRING), DEPENDENCY_STRING)

(***************************************************************************)
(* loader::load_graph_for_file: a file the language does not accept is     *)
(* skipped; an accepted one is read and tagged, added to the graph with    *)
(* its source-type node, and built.                                        *)
(***************************************************************************)
\* load_graph_for_file with the language's file test left out and the tag taken
\* from the path instead of the bytes read
load_graph_for_file_any(entry, content, g, source_type) ==
    IF get_file(g, entry)
    THEN [ok |-> FALSE, loaded |-> FALSE, graph |-> g, tag |-> <<>>, built |-> FALSE]
    ELSE LET g2 == load_node_to_graph(source_type, [g EXCEPT !.files = Append(@, entry)], entry)
             Loaded(b) == [ok |-> b.ok, loaded |-> b.ok, graph |-> b.graph,
                           tag |-> sha1(entry), built |-> TRUE]
         IN Loaded(BuilderBuild(g2, entry, content, Len(g.nodes) + 1))

load_graph_for_file(entry, content, g, source_type) ==
    IF ~matches_file(entry)
    THEN [ok |-> TRUE, loaded |-> FALSE, graph |-> g, tag |-> <<>>, built |-> FALSE]
    ELSE IF get_file(g, entry)
    THEN [ok |-> FALSE, loaded |-> FALSE, graph |-> g, tag |-> <<>>, built |-> FALSE]
    ELSE LET g2 == load_node_to_graph(source_type, [g EXCEPT !.files = Append(@, entry)], entry)
             Loaded(b) == [ok |-> b.ok, loaded |-> b.ok, graph |-> b.graph,
                           tag |-> sha1(content), built |-> TRUE]
         IN Loaded(BuilderBuild(g2, entry, content, Len(g.nodes) + 1))

(***************************************************************************)
(* The query evaluator (Querier).                                          *)
(***************************************************************************)
RECURSIVE SortedSeq(_)
SortedSeq(S) ==
    IF S = {} THEN <<>>
    ELSE LET m == CHOOSE x \in S : \A y \in S : x <= y IN <<m>> \o SortedSeq(S \ {m})

\* the test on the precedence turned round: only the edges of precedence 10 are followed
OrdinarySinks_inverted(g, node) ==
    SortedSeq({e.sink : e \in {x \in outgoing_edges(g, node) : x.precedence = FqdnPrecedence}})

\* the sinks of the ordinary edges of a node, in the order the graph keeps them
OrdinarySinks(g, node) ==
    SortedSeq({e.sink : e \in {x \in outgoing_edges(g, node) : x.precedence # FqdnPrecedence}})

None == [some |-> FALSE, v |-> <<>>]

Some(v) == [some |-> TRUE, v |-> v]

\* map_or_else on an optional name: the symbol alone, or the name so far, a dot, the symbol
Joined(opt, symbol) == IF opt.some THEN Some(opt.v \o <<".">> \o symbol) ELSE Some(symbol)

NoFqdn == [some |-> FALSE, namespace |-> None, class |-> None, method |-> None]

EmptyFqdn == [some |-> TRUE, namespace |-> None, class |-> None, method |-> None]

IsFqdnKind(kind) == kind \in {"namespace_declaration", "class_def", "method_name"}

\* the field of the kind replaced by the symbol instead of extended with it
FqdnField_overwrite(f, kind, symbol) ==
    CASE kind = "namespace_declaration" -> [f EXCEPT !.namespace = Some(symbol)]
      [] kind = "method_name" -> [f EXCEPT !.method = Some(symbol)]
      [] kind = "class_def" -> [f EXCEPT !.class = Some(symbol)]
      [] OTHER -> NoFqdn

FqdnField(f, kind, symbol) ==
    CASE kind = "namespace_declaration" -> [f EXCEPT !.namespace = Joined(@, symbol)]
      [] kind = "method_name" -> [f EXCEPT !.method = Joined(@, symbol)]
      [] kind = "class_def" -> [f EXCEPT !.class = Joined(@, symbol)]
      [] OTHER -> NoFqdn

\* query::get_fqdn: up the first edge of precedence 10, then this node's symbol is added
RECURSIVE get_fqdn(_, _)
get_fqdn(node, g) ==
    LET up == {e \in outgoing_edges(g, node) : e.precedence = FqdnPrecedence}
        kind == g.nodes[node].kind
        symbol == SymbolOf(g, node)
    IN IF up = {} THEN FqdnField(EmptyFqdn, kind, symbol)
       ELSE LET e == CHOOSE x \in up : \A y \in up : x.sink <= y.sink
                f == get_fqdn(e.sink, g)
            IN IF ~f.some THEN EmptyFqdn ELSE FqdnField(f, kind, symbol)

\* Querier::get_starting_nodes
IsStartKind(g, n, kind) == g.nodes[n].symbol # 0 /\ g.nodes[n].kind = kind

\* the map from files to compilation units with one key for all files: a file that
\* has a compilation unit is given the last one of the graph
file_to_compunit_handle_one_key(g, path) ==
    LET own == {n \in 1..Len(g.nodes) : g.nodes[n].file = path /\ IsStartKind(g, n, "comp_unit")}
        cus == {n \in 1..Len(g.nodes) : IsStartKind(g, n, "comp_unit")}
    IN IF own = {} THEN 0 ELSE CHOOSE n \in cus : \A m \in cus : m <= n

file_to_compunit_handle(g, path) ==
    LET cus == {n \in 1..Len(g.nodes) : g.nodes[n].file = path /\ IsStartKind(g, n, "comp_unit")}
    IN IF cus = {} THEN 0 ELSE CHOOSE n \in cus : \A m \in cus : m <= n

definition_root_nodes(g, search) ==
    SortedSeq({n \in 1..Len(g.nodes) : IsStartKind(g, n, "namespace_declaration")
                                       /\ match_namespace(search, SymbolOf(g, n))})

referenced_files(g, search) ==
    {g.nodes[n].file : n \in
       {m \in 1..Len(g.nodes) :
          \/ IsStartKind(g, m, "import") /\ partial_namespace(search, SymbolOf(g, m))
          \/ IsStartKind(g, m, "namespace_declaration") /\ match_namespace(search, SymbolOf(g, m))}}

(***************************************************************************)
(* The matchers.  Both walk the ordinary edges below a definition root and *)
(* look at each sink whose symbol the last part of the search matches; the *)
(* namespace matcher keeps the symbols of classes and methods, the method  *)
(* matcher the qualified names of methods.                                 *)
(***************************************************************************)
RECURSIVE MatcherSinks(_, _, _)
MatcherSinks(g, node, search) ==
    LET sinks == OrdinarySinks(g, node)
    IN {n \in Range(sinks) : g.nodes[n].symbol # 0 /\ match_symbol(search, SymbolOf(g, n))}
       \cup UNION {MatcherSinks(g, sinks[i], search) : i \in 1..Len(sinks)}

\* NamespaceSymbols::new keeping the classes and dropping the methods
NamespaceSymbolsNew_classes_only(g, roots, search) ==
    LET found == UNION {MatcherSinks(g, roots[i], search) : i \in 1..Len(roots)}
    IN [flavour |-> "namespace",
        names |-> {SymbolOf(g, n) : n \in {m \in found : g.nodes[m].kind = "class_def"}},
        fqdns |-> {}]

NamespaceSymbolsNew(g, roots, search) ==
    LET found == UNION {MatcherSinks(g, roots[i], search) : i \in 1..Len(roots)}
    IN [flavour |-> "namespace",
        names |-> {SymbolOf(g, n) : n \in {m \in found : g.nodes[m].kind \in {"method_name", "class_def"}}},
        fqdns |-> {}]

MethodSymbolsNew(g, roots, search) ==
    LET found == UNION {MatcherSinks(g, roots[i], search) : i \in 1..Len(roots)}
    IN [flavour |-> "method",
        names |-> {},
        fqdns |-> {get_fqdn(n, g) : n \in {m \in found : g.nodes[m].kind = "method_name"}}]

get_matcher(flavour, g, roots, search) ==
    IF flavour = "method" THEN MethodSymbolsNew(g, roots, search)
    ELSE NamespaceSymbolsNew(g, roots, search)

\* symbol_in_namespace without the test on the number of parts: the first part is the
\* class and the last the method
symbol_in_namespace_any_length(matcher, symbol) ==
    IF matcher.flavour = "namespace" THEN symbol \in matcher.names
    ELSE LET parts == SplitDot(symbol)
         IN \E f \in matcher.fqdns :
               /\ (IF f.method.some THEN f.method.v ELSE <<>>) = parts[Len(parts)]
               /\ (IF f.class.some THEN f.class.v ELSE <<>>) = parts[1]

\* SymbolMatcher::match_symbol of either matcher
symbol_in_namespace(matcher, symbol) ==
    IF matcher.flavour = "namespace" THEN symbol \in matcher.names
    ELSE LET parts == SplitDot(symbol)
         IN Len(parts) = 2 /\ \E f \in matcher.fqdns :
               /\ (IF f.method.some THEN f.method.v ELSE <<>>) = parts[2]
               /\ (IF f.class.some THEN f.class.v ELSE <<>>) = parts[1]

\* the ResultNode pushed for a matching sink
ResultNode(g, sink, file_uri) ==
    [file_uri |-> file_uri, line_number |-> g.nodes[sink].line,
     variables |-> [file |-> file_uri]]

\* Querier::traverse_node_search: the matching sinks of this node's ordinary edges,
\* then the same from each sink in turn
RECURSIVE traverse_node_search(_, _, _, _)
traverse_node_search(g, node, matcher, file_uri) ==
    LET sinks == OrdinarySinks(g, node)
        hit(n) == /\ g.nodes[n].symbol # 0
                  /\ symbol_in_namespace(matcher, SymbolOf(g, n))
                  /\ g.nodes[n].kind # ""
    IN Flatten([i \in 1..Len(sinks) |->
                  IF hit(sinks[i]) THEN <<ResultNode(g, sinks[i], file_uri)>> ELSE <<>>])
       \o Flatten([i \in 1..Len(sinks) |-> traverse_node_search(g, sinks[i], matcher, file_uri)])

\* the nodes a traversal is called on: the start node, then each sink kept in
\* traverse_nodes (child_edges in the matchers) and what the call on it visits
RECURSIVE traverse_visits(_, _)
traverse_visits(g, node) ==
    {node} \cup UNION {traverse_visits(g, n) : n \in Range(OrdinarySinks(g, node))}

\* the source-only test of a referenced file: one of its nodes carries the cached
\* symbol handle and has an edge to the file's compilation unit
HasSourceTypeNode(g, path, source_type, comp_unit) ==
    \E n \in Range(nodes_for_file(g, path)) :
        /\ g.nodes[n].symbol # 0
        /\ g.nodes[n].symbol = source_type.symbol_handle
        /\ \E e \in outgoing_edges(g, n) : e.sink = comp_unit

(***************************************************************************)
(* The loop of Querier::query over the referenced files, taken in the      *)
(* order the hash set yields them.  A file without a compilation unit, or  *)
(* whose path does not make a URL, ends the loop; a file that fails the    *)
(* source-only test is passed over.                                        *)
(***************************************************************************)
RECURSIVE QueryLoop(_, _, _, _)
QueryLoop(g, source_type, matcher, order) ==
    IF order = <<>> THEN [results |-> <<>>, traversed |-> <<>>]
    ELSE LET file == Head(order)
             cu == file_to_compunit_handle(g, file)
             rest == QueryLoop(g, source_type, matcher, Tail(order))
             url == UrlFromFilePath(file)
         IN IF cu = 0 THEN [results |-> <<>>, traversed |-> <<>>]
            ELSE IF source_type.type = "Source" /\ ~HasSourceTypeNode(g, file, source_type, cu)
            THEN rest
            ELSE IF ~url.ok THEN [results |-> <<>>, traversed |-> <<>>]
            ELSE [results |-> traverse_node_search(g, cu, matcher, url.url) \o rest.results,
                  traversed |-> <<file>> \o rest.traversed]

\* Querier::query: the search is compiled first; an error there ends the query
QuerierQuery(g, source_type, flavour, query, order) ==
    LET Found(loop) == [ok |-> TRUE, results |-> loop.results, traversed |-> loop.traversed]
        Searched(search) ==
            IF ~search.ok
            THEN [ok |-> FALSE, results |-> <<>>, traversed |-> <<>>]
            ELSE Found(QueryLoop(g, source_type,
                                 get_matcher(flavour, g, definition_root_nodes(g, search), search),
                                 order))
    IN Searched(create_search(query))

\* the orders in which the set of referenced files can be iterated
ReferencedOrders(g, query) ==
    IF create_search(query).ok THEN Orderings(referenced_files(g, create_search(query)))
    ELSE {<<>>}

(***************************************************************************)
(* The store: one entry per file path, holding the content tag and the     *)
(* file's serialised subgraph.  Writing a path again replaces its entry.   *)
(***************************************************************************)
\* store_result_for_file keeping the entry a path already has
store_result_for_file_keep(entries, g, path, tag) ==
    IF \E e \in entries : e.path = path THEN entries
    ELSE entries \cup {[path |-> path, tag |-> tag, sub |-> to_serializable_file(g, path)]}

store_result_for_file(entries, g, path, tag) ==
    {e \in entries : e.path # path}
        \cup {[path |-> path, tag |-> tag, sub |-> to_serializable_file(g, path)]}

\* the paths of the entries under a directory
StoredUnder(entries, dir) == {e.path : e \in {x \in entries : IsPrefix(dir, x.path)}}

SubOf(entries) == [p \in {e.path : e \in entries} |-> (CHOOSE e \in entries : e.path = p).sub]

\* load_graphs_for_file_or_directory, then a copy through the serialised form into a
\* new graph; `order` is the order in which the store yields the entries
LoadFromStore(entries, order) == LoadAll(StackGraphNew, order, SubOf(entries))

(***************************************************************************)
(* loader::init_stack_graph: a new graph seeded with the builtins; every   *)
(* file of the walk is loaded and, when accepted, written to the store at  *)
(* once.  An error on one file ends the ingestion; what was written before *)
(* it stays in the store.  `calls` collects the files handed to the        *)
(* Builder.                                                                *)
(***************************************************************************)
RECURSIVE InitWalk(_, _, _, _, _, _, _)
InitWalk(walk, disk, g, entries, source_type, loaded, calls) ==
    IF walk = <<>>
    THEN [ok |-> TRUE, files_loaded |-> loaded, stack_graph |-> g, entries |-> entries,
          calls |-> calls]
    ELSE LET path == Head(walk)
             Made(r) == IF r.built THEN calls \cup {[path |-> path, tag |-> r.tag]} ELSE calls
             Step(r) ==
                 IF ~r.ok
                 THEN [ok |-> FALSE, files_loaded |-> loaded, stack_graph |-> g,
                       entries |-> entries, calls |-> Made(r)]
                 ELSE IF ~r.loaded
                 THEN InitWalk(Tail(walk), disk, g, entries, source_type, loaded, Made(r))
                 ELSE InitWalk(Tail(walk), disk, r.graph,
                               store_result_for_file(entries, r.graph, path, r.tag),
                               source_type, loaded + 1, Made(r))
         IN Step(load_graph_for_file(path, disk[path], g, source_type))

init_stack_graph(walk, disk, entries, lc) ==
    InitWalk(walk, disk, add_from_graph(StackGraphNew, lc.builtins, 1), entries,
             lc.source_type_node_info, 0, {})

(***************************************************************************)
(* loader::add_dir_to_graph: as above into the graph given, without store  *)
(* writes; a path the graph already holds is passed over.  The tags of the *)
(* loaded files are returned for the caller to write.                      *)
(***************************************************************************)
RECURSIVE DirWalk(_, _, _, _, _, _, _)
DirWalk(walk, disk, g, source_type, loaded, file_to_tag, calls) ==
    IF walk = <<>>
    THEN [ok |-> TRUE, files_loaded |-> loaded, stack_graph |-> g,
          file_to_tag |-> file_to_tag, calls |-> calls]
    ELSE LET path == Head(walk)
             Made(r) == IF r.built THEN calls \cup {[path |-> path, tag |-> r.tag]} ELSE calls
             Step(r) ==
                 IF ~r.ok
                 THEN [ok |-> FALSE, files_loaded |-> loaded, stack_graph |-> g,
                       file_to_tag |-> file_to_tag, calls |-> Made(r)]
                 ELSE IF ~r.loaded
                 THEN DirWalk(Tail(walk), disk, g, source_type, loaded, file_to_tag, Made(r))
                 ELSE DirWalk(Tail(walk), disk, r.graph, source_type, loaded + 1,
                              file_to_tag \cup {[path |-> path, tag |-> r.tag]}, Made(r))
         IN IF get_file(g, path)
            THEN DirWalk(Tail(walk), disk, g, source_type, loaded, file_to_tag, calls)
            ELSE Step(load_graph_for_file(path, disk[path], g, source_type))

add_dir_to_graph(walk, disk, source_type, original_graph) ==
    DirWalk(walk, disk, original_graph, source_type, 0, {}, {})

\* the store writes of one dependency task, for every loaded file of its graph
RECURSIVE StoreAll(_, _, _)
StoreAll(entries, g, file_to_tag) ==
    IF file_to_tag = {} THEN entries
    ELSE LET ft == CHOOSE x \in file_to_tag : TRUE
         IN StoreAll(store_result_for_file(entries, g, ft.path, ft.tag), g, file_to_tag \ {ft})

(***************************************************************************)
(* The world of the model: a project directory with up to two C# files and *)
(* a text file, and one package whose decompilation yields one C# file.    *)
(***************************************************************************)
Location == <<"/", "p">>

FileA == Location \o <<"a", "cs">>

FileB == Location \o <<"b", "cs">>

FileT == Location \o <<"notes", "txt">>

DecompiledDir == Location \o <<"packages", "d1", "d1-decompiled">>

FileD == DecompiledDir \o <<"x", "cs">>

\* the directory a second package is decompiled into, and the C# file found there
DecompiledDir2 == Location \o <<"packages", "d2", "d2-decompiled">>

FileE == DecompiledDir2 \o <<"y", "cs">>

AllPaths == {FileA, FileB, FileT, FileD, FileE}

\* the queries sent to Evaluate: N.*, N.K, N.[* and N.[
Patterns ==
    {<<"N", ".", "*">>, <<"N", ".", "K">>, <<"N", ".", "[", "*">>, <<"N", ".", "[">>}

AnalysisModes == {"full", "source-only"}

\* the number of Init requests a behaviour holds
MaxInits == 2

VARIABLES
    disk,          \* path -> content of the file there, "absent" when there is none
    env,           \* what the tools outside the program do: tsg parse, paket, ilspy
    store,         \* the database file: whether it exists, and its entries
    project,       \* CSharpProvider.project
    config,        \* CSharpProvider.config
    pc,            \* where the Init handler stands
    projectLock,   \* the holder of the project mutex
    tasks,         \* the dependency ingest tasks of load_to_database
    initLog,       \* the steps the running (or last) Init has taken, with their outcome
    initResp,      \* what the last Init returned
    evalResp,      \* what the Evaluate that has just run returned
    builds,        \* the outcome of every get_project_graph so far
    builderLog,    \* the Builder calls made for a file whose stored tag was current
    nInit,         \* Init requests so far
    args,          \* the arguments of the function under examination, when one is
    ret,           \* what that function returned
    resolver,      \* Project::resolve: its dependency tasks and what it returned
    frames,        \* the stack of calls of a graph traversal under examination
    ingest         \* the ingestion under examination: locks held, writes pending and made

vars == <<disk, env, store, project, config, pc, projectLock, tasks, initLog, initResp,
          evalResp, builds, builderLog, nInit, args, ret, resolver, frames, ingest>>

NoProject ==
    [exists |-> FALSE, analysis_mode |-> "full", hasLc |-> FALSE, hasGraph |-> FALSE,
     graph |-> StackGraphNew, hasDeps |-> FALSE, dependencies |-> <<>>]

\* Project::new
ProjectNew(analysis_mode) == [NoProject EXCEPT !.exists = TRUE, !.analysis_mode = analysis_mode]

\* impl From<String> for AnalysisMode
AnalysisModeFrom(value) == IF value = "source-only" THEN "SourceOnly" ELSE "Full"

NoInitResp == [kind |-> "none", successful |-> FALSE, error |-> "", steps |-> <<>>]

NoEvalResp ==
    [kind |-> "none", successful |-> FALSE, error |-> "", hasResponse |-> FALSE,
     incident_contexts |-> <<>>, pattern |-> <<>>, flavour |-> "", traversed |-> <<>>]

\* no function is under examination, and resolve is not looked into
NoArgs == [fn |-> "none"]

NoRet == [fn |-> "none", value |-> FALSE]

NoResolver == [pc |-> "none"]

NoFrames == [state |-> "none"]

NoIngest == [state |-> "none"]

FilesUnder(d, dir) == {p \in AllPaths : d[p] # "absent" /\ IsPrefix(dir, p)}

Init ==
    /\ disk \in {d \in [AllPaths -> {"absent", "use", "def", "bad", "text"}] :
                   /\ d[FileA] \in {"absent", "use", "def"}
                   /\ d[FileB] \in {"absent", "use", "bad"}
                   /\ d[FileT] = "text"
                   /\ d[FileD] = "absent"
                   /\ d[FileE] = "absent"}
    /\ env \in [langOk : BOOLEAN, paketOk : BOOLEAN,
                decompiled : {"nothing", "failed", "def", "bad"}]
    /\ store = [exists |-> FALSE, entries |-> {}]
    /\ project = NoProject
    /\ config = "none"
    /\ pc = "idle"
    /\ projectLock = "free"
    /\ tasks = {}
    /\ initLog = <<>>
    /\ initResp = NoInitResp
    /\ evalResp = NoEvalResp
    /\ builds = <<>>
    /\ builderLog = {}
    /\ nInit = 0
    /\ args = NoArgs
    /\ ret = NoRet
    /\ resolver = NoResolver
    /\ frames = NoFrames
    /\ ingest = NoIngest

LC == SourceNodeLanguageConfigurationNew

Logged(step, ok) == Append(initLog, [step |-> step, ok |-> ok])

\* the handler returns Err(Status): the request fails with a status, and the project
\* mutex is released with the guard
InitFails(step, message) ==
    /\ initLog' = Logged(step, FALSE)
    /\ initResp' = [kind |-> "status", successful |-> FALSE, error |-> message,
                    steps |-> Logged(step, FALSE)]
    /\ pc' = "idle"
    /\ projectLock' = "free"

\* the Builder calls among `calls` made for a file whose stored tag is the file's tag
CurrentTagCalls(calls, entries) ==
    {c \in calls : \E e \in entries : e.path = c.path /\ e.tag = c.tag}

(***************************************************************************)
(* CSharpProvider::init, first part: the configuration is saved and a new  *)
(* project replaces the provider's project; both guards are dropped.       *)
(***************************************************************************)
InitStart(analysis_mode) ==
    /\ pc = "idle"
    /\ evalResp.kind = "none"
    /\ nInit < MaxInits
    /\ projectLock = "free"
    /\ nInit' = nInit + 1
    /\ config' = analysis_mode
    /\ project' = ProjectNew(AnalysisModeFrom(analysis_mode))
    /\ pc' = "created"
    /\ initLog' = <<>>
    /\ initResp' = NoInitResp
    /\ evalResp' = NoEvalResp
    /\ tasks' = {}
    /\ UNCHANGED <<args, ret, resolver, frames, ingest, disk, env, store, projectLock, builds, builderLog>>

\* the project mutex is taken again and kept until the handler returns
InitLock ==
    /\ pc = "created"
    /\ evalResp.kind = "none"
    /\ projectLock = "free"
    /\ projectLock' = "init"
    /\ pc' = "locked"
    /\ evalResp' = NoEvalResp
    /\ UNCHANGED <<args, ret, resolver, frames, ingest, disk, env, store, project, config, tasks, initLog, initResp, builds,
                   builderLog, nInit>>

\* Project::validate_language_configuration
InitValidate ==
    /\ pc = "locked"
    /\ evalResp.kind = "none"
    /\ UNCHANGED evalResp
    /\ IF env.langOk
       THEN /\ project' = [project EXCEPT !.hasLc = TRUE]
            /\ initLog' = Logged("validate_language", TRUE)
            /\ pc' = "validated"
            /\ UNCHANGED <<initResp, projectLock>>
       ELSE /\ InitFails("validate_language", "unable to create language configuration for project")
            /\ UNCHANGED project
    /\ UNCHANGED <<args, ret, resolver, frames, ingest, disk, env, store, config, tasks, builds, builderLog, nInit>>

(***************************************************************************)
(* Project::get_project_graph.  When the database file exists its entries  *)
(* under the project location are loaded; a graph with at least one symbol *)
(* becomes the project graph and the number of files loaded is returned.   *)
(* Otherwise the location is ingested by init_stack_graph, which opens     *)
(* (and so creates) the database.                                          *)
(***************************************************************************)
get_project_graph(d, st, order, walk) ==
    LET Ingested(r) ==
            [ok |-> r.ok, files_loaded |-> r.files_loaded, graph |-> r.stack_graph,
             store |-> [exists |-> TRUE, entries |-> r.entries], calls |-> r.calls,
             fromStore |-> FALSE]
        Loaded(loaded) ==
            IF st.exists /\ Len(loaded.symbols) # 0
            THEN [ok |-> TRUE, files_loaded |-> Len(loaded.files), graph |-> loaded,
                  store |-> st, calls |-> {}, fromStore |-> TRUE]
            ELSE Ingested(init_stack_graph(walk, d, st.entries, LC))
    IN Loaded(LoadFromStore(st.entries, order))

InitBuildGraph ==
    /\ pc = "validated"
    /\ evalResp.kind = "none"
    /\ UNCHANGED evalResp
    /\ \E order \in Orderings(StoredUnder(store.entries, Location)) :
       \E walk \in Orderings(FilesUnder(disk, Location)) :
         \E r \in {get_project_graph(disk, store, order, walk)} :
            /\ store' = r.store
            /\ builds' = Append(builds, [ok |-> r.ok, files_loaded |-> r.files_loaded,
                                         graph |-> r.graph, fromStore |-> r.fromStore,
                                         builderCalls |-> Cardinality(r.calls),
                                         disk |-> disk, mode |-> project.analysis_mode])
            /\ builderLog' = builderLog \cup CurrentTagCalls(r.calls, store.entries)
            /\ IF r.ok
               THEN /\ project' = [project EXCEPT !.hasGraph = TRUE, !.graph = r.graph]
                    /\ initLog' = Logged("build_graph", TRUE)
                    /\ pc' = "built"
                    /\ UNCHANGED <<initResp, projectLock>>
               ELSE /\ InitFails("build_graph", "failed")
                    /\ UNCHANGED project
    /\ UNCHANGED <<args, ret, resolver, frames, ingest, disk, env, config, tasks, nInit>>

(***************************************************************************)
(* Project::resolve: paket converts the project and the dependencies are   *)
(* read and decompiled.  A dependency whose decompilation failed keeps an  *)
(* empty set of decompiled locations.                                      *)
(***************************************************************************)
ResolvedDependencies ==
    CASE env.decompiled = "nothing" -> <<>>
      [] env.decompiled = "failed" -> <<[name |-> "d1", decompiled_location |-> {}]>>
      [] OTHER -> <<[name |-> "d1", decompiled_location |-> {DecompiledDir}]>>

InitResolve ==
    /\ pc = "built"
    /\ evalResp.kind = "none"
    /\ UNCHANGED evalResp
    /\ IF env.paketOk
       THEN /\ project' = [project EXCEPT !.hasDeps = TRUE, !.dependencies = ResolvedDependencies]
            /\ disk' = IF env.decompiled \in {"def", "bad"}
                       THEN [disk EXCEPT ![FileD] = env.decompiled] ELSE disk
            /\ initLog' = Logged("resolve", TRUE)
            /\ pc' = "resolved"
            /\ UNCHANGED <<initResp, projectLock>>
       ELSE /\ InitFails("resolve", "unable to resolve dependenies")
            /\ UNCHANGED <<project, disk>>
    /\ UNCHANGED <<args, ret, resolver, frames, ingest, env, store, config, tasks, builds, builderLog, nInit>>

(***************************************************************************)
(* Project::load_to_database.  One task is spawned per decompiled location *)
(* of every dependency; each task ingests its directory into a graph of    *)
(* its own, seeded with the two marker symbols, and writes the loaded      *)
(* files to the store.  When all tasks have finished, the first error ends *)
(* the call; without one the project graph is replaced by what the store   *)
(* holds under the project location.  Init does not look at the result.    *)
(***************************************************************************)
DecompiledLocations(deps) == UNION {deps[i].decompiled_location : i \in 1..Len(deps)}

LoadSpawn ==
    /\ pc = "resolved"
    /\ evalResp.kind = "none"
    /\ UNCHANGED evalResp
    /\ tasks' = {[dir |-> d, state |-> "running"] :
                   d \in (IF project.hasDeps THEN DecompiledLocations(project.dependencies) ELSE {})}
    /\ pc' = "loading"
    /\ UNCHANGED <<args, ret, resolver, frames, ingest, disk, env, store, project, config, projectLock, initLog, initResp, builds,
                   builderLog, nInit>>

TaskRun(t) ==
    /\ pc = "loading"
    /\ evalResp.kind = "none"
    /\ t \in tasks
    /\ t.state = "running"
    /\ evalResp' = NoEvalResp
    /\ \E walk \in Orderings(FilesUnder(disk, t.dir)) :
         \E r \in {add_dir_to_graph(walk, disk, LC.dependnecy_type_node_info,
                                      load_symbols_into_graph(StackGraphNew))} :
            /\ builderLog' = builderLog \cup CurrentTagCalls(r.calls, store.entries)
            /\ IF project.hasLc /\ r.ok
               THEN /\ store' = [store EXCEPT !.exists = TRUE,
                                   !.entries = StoreAll(@, r.stack_graph, r.file_to_tag)]
                    /\ tasks' = (tasks \ {t}) \cup {[t EXCEPT !.state = "ok"]}
               ELSE /\ tasks' = (tasks \ {t}) \cup {[t EXCEPT !.state = "err"]}
                    /\ UNCHANGED store
    /\ UNCHANGED <<args, ret, resolver, frames, ingest, disk, env, project, config, pc, projectLock, initLog, initResp, builds, nInit>>

\* the end of load_to_database and of Init: the response is built whatever the result
LoadJoin ==
    /\ pc = "loading"
    /\ evalResp.kind = "none"
    /\ \A t \in tasks : t.state # "running"
    /\ evalResp' = NoEvalResp
    /\ LET failed == \E t \in tasks : t.state = "err"
       IN /\ IF failed THEN UNCHANGED project
             ELSE \E order \in Orderings(StoredUnder(store.entries, Location)) :
                    project' = [project EXCEPT !.hasGraph = TRUE,
                                               !.graph = LoadFromStore(store.entries, order)]
          /\ initLog' = Logged("load_dependencies_to_store", ~failed)
          /\ initResp' = [kind |-> "response", successful |-> TRUE, error |-> "",
                          steps |-> Logged("load_dependencies_to_store", ~failed)]
    /\ pc' = "idle"
    /\ projectLock' = "free"
    /\ UNCHANGED <<args, ret, resolver, frames, ingest, disk, env, store, config, tasks, builds, builderLog, nInit>>

(***************************************************************************)
(* CSharpProvider::evaluate.  The request names a capability and carries a *)
(* condition; the pattern of the condition is searched in the project's    *)
(* graph with the source type of the project's analysis mode.              *)
(***************************************************************************)
\* Project::get_source_type
get_source_type(p) ==
    IF p.analysis_mode = "SourceOnly" THEN LC.source_type_node_info
    ELSE LC.dependnecy_type_node_info

EvalStatus(message) == [NoEvalResp EXCEPT !.kind = "status", !.error = message]

EvalError(flavour, pattern, message) ==
    [NoEvalResp EXCEPT !.kind = "response", !.error = message, !.pattern = pattern,
                       !.flavour = flavour]

\* FindNode::run on the project: its graph and source type, then the query
FindNodeRun(p, flavour, pattern, order) ==
    IF ~p.hasGraph THEN [ok |-> FALSE, error |-> "project graph not found",
                         results |-> <<>>, traversed |-> <<>>]
    ELSE IF ~p.hasLc THEN [ok |-> FALSE, error |-> "source type not found",
                           results |-> <<>>, traversed |-> <<>>]
    ELSE LET Ran(q) == [ok |-> q.ok, error |-> IF q.ok THEN "" ELSE "regex parse error",
                        results |-> q.results, traversed |-> q.traversed]
         IN Ran(QuerierQuery(p.graph, get_source_type(p), flavour, pattern, order))

EvaluateResponse(cap, parses, flavour, pattern, order) ==
    IF cap # "referenced" THEN EvalStatus("unknown capabilities")
    ELSE IF ~parses THEN EvalStatus("failed")
    ELSE IF ~project.exists THEN EvalStatus("project may not be initialized")
    ELSE LET Mapped(res) ==
                 IF ~res.ok THEN EvalError(flavour, pattern, res.error)
                 ELSE [kind |-> "response", successful |-> TRUE, error |-> "",
                       hasResponse |-> TRUE, incident_contexts |-> res.results,
                       pattern |-> pattern, flavour |-> flavour, traversed |-> res.traversed]
         IN Mapped(FindNodeRun(project, flavour, pattern, order))

\* evaluate without the wait for the project mutex
Evaluate_unlocked(cap, parses, flavour, pattern) ==
    /\ evalResp.kind = "none"
    /\ \E order \in (IF project.hasGraph THEN ReferencedOrders(project.graph, pattern)
                     ELSE {<<>>}) :
         evalResp' = EvaluateResponse(cap, parses, flavour, pattern, order)
    /\ UNCHANGED <<args, ret, resolver, frames, ingest, disk, env, store, project, config, pc, projectLock, tasks, initLog,
                   initResp, builds, builderLog, nInit>>

Evaluate(cap, parses, flavour, pattern) ==
    /\ projectLock = "free"
    /\ evalResp.kind = "none"
    /\ \E order \in (IF project.hasGraph THEN ReferencedOrders(project.graph, pattern)
                     ELSE {<<>>}) :
         evalResp' = EvaluateResponse(cap, parses, flavour, pattern, order)
    /\ UNCHANGED <<args, ret, resolver, frames, ingest, disk, env, store, project, config, pc, projectLock, tasks, initLog,
                   initResp, builds, builderLog, nInit>>

\* the requests Evaluate is sent: a capability, a condition that parses or not, and for
\* those that parse a location and a pattern
Requests ==
    {[cap |-> "other", parses |-> TRUE, flavour |-> "all", pattern |-> <<"N", ".", "K">>],
     [cap |-> "referenced", parses |-> FALSE, flavour |-> "all", pattern |-> <<"N", ".", "K">>]}
    \cup [cap : {"referenced"}, parses : {TRUE}, flavour : {"all", "method"}, pattern : Patterns]

\* the response has been sent to the caller
EvaluateReturn ==
    /\ evalResp.kind # "none"
    /\ evalResp' = NoEvalResp
    /\ UNCHANGED <<args, ret, resolver, frames, ingest, disk, env, store, project, config, pc, projectLock, tasks, initLog,
                   initResp, builds, builderLog, nInit>>

Next ==
    \/ \E m \in AnalysisModes : InitStart(m)
    \/ InitLock
    \/ InitValidate
    \/ InitBuildGraph
    \/ InitResolve
    \/ LoadSpawn
    \/ \E t \in tasks : TaskRun(t)
    \/ LoadJoin
    \/ \E r \in Requests : Evaluate(r.cap, r.parses, r.flavour, r.pattern)
    \/ EvaluateReturn

Spec == Init /\ [][Next]_vars

(***************************************************************************)
(* The program at rest, for the specifications below that examine one      *)
(* function or one call on its own: nothing of the provider moves.         *)
(***************************************************************************)
progvars == <<disk, env, store, project, config, pc, projectLock, tasks, initLog, initResp,
              evalResp, builds, builderLog, nInit, frames, ingest>>

AtRest ==
    /\ frames = NoFrames
    /\ ingest = NoIngest
    /\ disk = [p \in AllPaths |-> "absent"]
    /\ env = [langOk |-> TRUE, paketOk |-> TRUE, decompiled |-> "nothing"]
    /\ store = [exists |-> FALSE, entries |-> {}]
    /\ project = NoProject
    /\ config = "none"
    /\ pc = "idle"
    /\ projectLock = "free"
    /\ tasks = {}
    /\ initLog = <<>>
    /\ initResp = NoInitResp
    /\ evalResp = NoEvalResp
    /\ builds = <<>>
    /\ builderLog = {}
    /\ nInit = 0

\* the sequences over S of length 1 to n
SeqsUpTo(S, n) == UNION {[1..k -> S] : k \in 1..n}

\* a dotted name none of whose components is empty
WellFormed(s) == \A i \in 1..Len(SplitDot(s)) : SplitDot(s)[i] # <<>>

(***************************************************************************)
(* The Search on its own: a query is compiled and one of the three         *)
(* predicates is asked about a symbol.                                     *)
(***************************************************************************)
MaxQueryLen == 3

MaxSymbolLen == 3

SearchQueries == {q \in SeqsUpTo({"a", "b", "*", "."}, MaxQueryLen) : WellFormed(q)}

SearchSymbols == {y \in SeqsUpTo({"a", "b", "."}, MaxSymbolLen) : WellFormed(y)}

SearchInit ==
    /\ AtRest
    /\ args \in [fn : {"search"}, query : SearchQueries, symbol : SearchSymbols]
    /\ ret = NoRet
    /\ resolver = NoResolver

PartialNamespace ==
    /\ ret.fn = "none"
    /\ \E search \in {create_search(args.query)} :
         /\ search.ok
         /\ ret' = [fn |-> "partial_namespace", value |-> partial_namespace(search, args.symbol)]
    /\ UNCHANGED <<progvars, args, resolver>>

MatchNamespace ==
    /\ ret.fn = "none"
    /\ \E search \in {create_search(args.query)} :
         /\ search.ok
         /\ ret' = [fn |-> "match_namespace", value |-> match_namespace(search, args.symbol)]
    /\ UNCHANGED <<progvars, args, resolver>>

MatchSymbol ==
    /\ ret.fn = "none"
    /\ \E search \in {create_search(args.query)} :
         /\ search.ok
         /\ ret' = [fn |-> "match_symbol", value |-> match_symbol(search, args.symbol)]
    /\ UNCHANGED <<progvars, args, resolver>>

SearchNext == PartialNamespace \/ MatchNamespace \/ MatchSymbol

SearchSpec == SearchInit /\ [][SearchNext]_vars

(***************************************************************************)
(* Project::resolve on its own.  The manifest is converted when absent and *)
(* parsed into the dependencies; one task per dependency runs its          *)
(* decompile and hands the dependency back whatever the outcome; resolve   *)
(* collects the dependencies as the tasks finish and stores the list.      *)
(*                                                                         *)
(* A package is "missing" (no package directory), "no_cache" (no           *)
(* paket-installmodel.cache in it) or "ok" with the DLLs its cache lists;  *)
(* for each DLL, `output` is what Command::output returns for the          *)
(* decompiler ("Ok": it was run, whatever its exit status, which is not    *)
(* read; "Err": it could not be run) and `parent` the DLL's directory.     *)
(***************************************************************************)
MaxDlls == 2

ParsedDeps == {"d1", "d2"}

Dlls == [parent : {"lib", "lib/sub"}, output : {"Ok", "Err"}]

Packages ==
    [state : {"missing", "no_cache"}, dlls : {<<>>}]
        \cup [state : {"ok"}, dlls : UNION {[1..k -> Dlls] : k \in 0..MaxDlls}]

\* Dependencies as read_packet_dependency_file makes them, in a task not yet run
DependenciesNew(name) ==
    [name |-> name, state |-> "spawned", to_decompile |-> <<>>, decompiled_files |-> {},
     decompiled_location |-> {}, result |-> "none", joined |-> FALSE]

\* decompile_file: the output directory is named after the package, beside the DLL
decompile_out_name(name, dll) == <<name, dll.parent, name \o "-decompiled">>

\* Dependencies::decompile up to the list of DLLs to decompile
decompile_open(d, package) ==
    IF package.state = "missing"
    THEN [d EXCEPT !.state = "returned", !.result = "invalid package path"]
    ELSE IF package.state = "no_cache"
    THEN [d EXCEPT !.state = "returned", !.result = "unable to find dll's"]
    ELSE [d EXCEPT !.state = "decompiling", !.to_decompile = package.dlls]

\* one turn of the loop with the output directory put into the shared set at once
decompile_next_publishing(d) ==
    IF Head(d.to_decompile).output = "Err"
    THEN [d EXCEPT !.state = "returned", !.result = "decompile_file failed"]
    ELSE [d EXCEPT !.decompiled_location = @ \cup {decompile_out_name(d.name, Head(d.to_decompile))},
                   !.decompiled_files = @ \cup {decompile_out_name(d.name, Head(d.to_decompile))},
                   !.to_decompile = Tail(@)]

\* one turn of the loop over the DLLs: an error ends decompile, an output directory
\* goes into the task's own set
decompile_next(d) ==
    IF Head(d.to_decompile).output = "Err"
    THEN [d EXCEPT !.state = "returned", !.result = "decompile_file failed"]
    ELSE [d EXCEPT !.decompiled_files = @ \cup {decompile_out_name(d.name, Head(d.to_decompile))},
                   !.to_decompile = Tail(@)]

\* the end of decompile: the task's set replaces the shared one under its lock
decompile_publish(d) ==
    [d EXCEPT !.decompiled_location = d.decompiled_files, !.state = "returned", !.result = "ok"]

ResolveInit ==
    /\ AtRest
    /\ args = NoArgs
    /\ ret = NoRet
    /\ resolver \in [pc : {"start"}, paket : {"ok", "convert_fails", "parse_fails"},
                      packages : [ParsedDeps -> Packages],
                      set : {[n \in ParsedDeps |-> DependenciesNew(n)]},
                      deps : {<<>>}, dependencies : {None}, error : {""}]

\* the manifest is converted and parsed, and the tasks are spawned
ResolveSpawn ==
    /\ resolver.pc = "start"
    /\ resolver' =
          IF resolver.paket = "convert_fails"
          THEN [resolver EXCEPT !.pc = "returned", !.error = "paket command did not succeed"]
          ELSE IF resolver.paket = "parse_fails"
          THEN [resolver EXCEPT !.pc = "returned", !.error = "unable to get reference assembly"]
          ELSE [resolver EXCEPT !.pc = "joining"]
    /\ UNCHANGED <<progvars, args, ret>>

DecompileOpen(n) ==
    /\ resolver.pc = "joining"
    /\ resolver.set[n].state = "spawned"
    /\ resolver' = [resolver EXCEPT !.set[n] = decompile_open(@, resolver.packages[n])]
    /\ UNCHANGED <<progvars, args, ret>>

DecompileNext(n) ==
    /\ resolver.pc = "joining"
    /\ resolver.set[n].state = "decompiling"
    /\ resolver.set[n].to_decompile # <<>>
    /\ resolver' = [resolver EXCEPT !.set[n] = decompile_next(@)]
    /\ UNCHANGED <<progvars, args, ret>>

DecompilePublish(n) ==
    /\ resolver.pc = "joining"
    /\ resolver.set[n].state = "decompiling"
    /\ resolver.set[n].to_decompile = <<>>
    /\ resolver' = [resolver EXCEPT !.set[n] = decompile_publish(@)]
    /\ UNCHANGED <<progvars, args, ret>>

\* join_next: a task that has returned hands its dependency back
ResolveJoin(n) ==
    /\ resolver.pc = "joining"
    /\ resolver.set[n].state = "returned"
    /\ ~resolver.set[n].joined
    /\ resolver' = [resolver EXCEPT !.set[n].joined = TRUE,
                                     !.deps = Append(@, resolver.set[n])]
    /\ UNCHANGED <<progvars, args, ret>>

\* every task is joined: the list becomes the project's dependencies
ResolveReturn ==
    /\ resolver.pc = "joining"
    /\ \A n \in ParsedDeps : resolver.set[n].joined
    /\ resolver' = [resolver EXCEPT !.pc = "returned", !.dependencies = Some(resolver.deps)]
    /\ UNCHANGED <<progvars, args, ret>>

ResolveNext ==
    \/ ResolveSpawn
    \/ \E n \in ParsedDeps : DecompileOpen(n)
    \/ \E n \in ParsedDeps : DecompileNext(n)
    \/ \E n \in ParsedDeps : DecompilePublish(n)
    \/ \E n \in ParsedDeps : ResolveJoin(n)
    \/ ResolveReturn

ResolveSpec == ResolveInit /\ [][ResolveNext]_vars

(***************************************************************************)
(* get_fqdn on its own.  The graph holds one file whose declarations nest  *)
(* in a chain: below the compilation unit, each node has an ordinary edge  *)
(* to the next and the next has its edge of precedence 10 back to it.  The *)
(* kinds along the chain are drawn; "name" is a kind that is no part of a  *)
(* qualified name.                                                         *)
(***************************************************************************)
MaxChain == 4

ChainKinds == {"namespace_declaration", "class_def", "method_name", "name"}

ChainSymbols == <<"A", "B", "C", "K", "M", "P", "Q">>

\* the node injected for the source type, as a file's subgraph stores it
MarkerNode(marker) == [hasSymbol |-> TRUE, symbol |-> marker, kind |-> "", line |-> 0]

\* the stored subgraph of a file with the chain: the source-type node, the compilation
\* unit, then the declarations outermost first
ChainFile(kinds) ==
    [nodes |-> <<MarkerNode(SOURCE_STRING), CompUnit>>
                 \o [i \in 1..Len(kinds) |-> TNode(<<ChainSymbols[i]>>, kinds[i], i + 1)],
     edges |-> {TEdge(1, 2, 0)}
                 \cup {TEdge(i + 1, i + 2, 0) : i \in 1..Len(kinds)}
                 \cup {TEdge(i + 2, i + 1, FqdnPrecedence) : i \in 2..Len(kinds)}]

FqdnInit ==
    /\ AtRest
    /\ args \in {[fn |-> "get_fqdn", kinds |-> ks, node |-> 2 + i,
                   graph |-> load_into(StackGraphNew, FileA, ChainFile(ks))] :
                     ks \in SeqsUpTo(ChainKinds, MaxChain), i \in 1..MaxChain}
    /\ args.node <= 2 + Len(args.kinds)
    /\ ret = NoRet
    /\ resolver = NoResolver

GetFqdn ==
    /\ ret.fn = "none"
    /\ args.fn = "get_fqdn"
    /\ ret' = [fn |-> "get_fqdn", value |-> get_fqdn(args.node, args.graph)]
    /\ UNCHANGED <<progvars, args, resolver>>

FqdnSpec == FqdnInit /\ [][GetFqdn]_vars

(***************************************************************************)
(* The Querier on its own.  The graph is loaded from stored files of these *)
(* shapes, each with its source-type node first:                           *)
(*   "use"     a compilation unit importing N and naming K, K.M and X;     *)
(*   "def"     namespace N with class K and method M;                      *)
(*   "nested"  namespace B, reached from the compilation unit, with class  *)
(*             K and method M; B's edge of precedence 10 leads to          *)
(*             namespace A, which holds class X and which no ordinary edge *)
(*             reaches;                                                    *)
(*   "nocu"    an import of N and no compilation unit.                     *)
(* The project location the paths start with is absolute or relative; a    *)
(* relative path makes no file URL.                                        *)
(***************************************************************************)
StoredFile(shape) ==
    CASE shape = "use" ->
           [nodes |-> <<MarkerNode(SOURCE_STRING), CompUnit, TNode(<<"N">>, "import", 1),
                        TNode(<<"K">>, "name", 2), TNode(<<"K", ".", "M">>, "name", 3),
                        TNode(<<"X">>, "name", 4)>>,
            edges |-> {TEdge(1, 2, 0), TEdge(2, 3, 0), TEdge(2, 4, 0), TEdge(2, 5, 0),
                       TEdge(2, 6, 0)}]
      [] shape = "def" ->
           [nodes |-> <<MarkerNode(SOURCE_STRING), CompUnit,
                        TNode(<<"N">>, "namespace_declaration", 1),
                        TNode(<<"K">>, "class_def", 2), TNode(<<"M">>, "method_name", 3)>>,
            edges |-> {TEdge(1, 2, 0), TEdge(2, 3, 0), TEdge(3, 4, 0), TEdge(4, 5, 0),
                       TEdge(4, 3, FqdnPrecedence), TEdge(5, 4, FqdnPrecedence)}]
      [] shape = "nested" ->
           [nodes |-> <<MarkerNode(SOURCE_STRING), CompUnit,
                        TNode(<<"A">>, "namespace_declaration", 1),
                        TNode(<<"X">>, "class_def", 2),
                        TNode(<<"B">>, "namespace_declaration", 3),
                        TNode(<<"K">>, "class_def", 4), TNode(<<"M">>, "method_name", 5)>>,
            edges |-> {TEdge(1, 2, 0), TEdge(2, 5, 0), TEdge(3, 4, 0), TEdge(5, 6, 0),
                       TEdge(6, 7, 0), TEdge(4, 3, FqdnPrecedence),
                       TEdge(5, 3, FqdnPrecedence), TEdge(6, 5, FqdnPrecedence),
                       TEdge(7, 6, FqdnPrecedence)}]
      [] OTHER ->
           [nodes |-> <<MarkerNode(SOURCE_STRING), TNode(<<"N">>, "import", 1)>>,
            edges |-> {}]

\* the stored files of a graph: a shape for each path that has one
StoredShapes ==
    {sh \in [{FileA, FileB} -> {"absent", "use", "def", "nested", "nocu"}] :
        /\ sh[FileB] \in {"absent", "use", "nocu"}
        /\ \E f \in DOMAIN sh : sh[f] # "absent"}

\* the path of a file as the walk of the project location gives it
PathUnder(path, relative) == IF relative THEN Tail(path) ELSE path

QuerierGraph(sh, relative) ==
    LET present == SelectSeq(<<FileA, FileB>>, LAMBDA f : sh[f] # "absent")
    IN LoadAll(StackGraphNew,
               [i \in 1..Len(present) |-> PathUnder(present[i], relative)],
               [p \in {PathUnder(f, relative) : f \in DOMAIN sh} |->
                  StoredFile(sh[CHOOSE f \in DOMAIN sh : PathUnder(f, relative) = p])])

\* the analysis_mode strings a configuration carries: the two the provider knows, an
\* unknown one and the empty string
ConfigModes == {"full", "source-only", "Full", ""}

QuerierQueries ==
    {<<"N", ".", "*">>, <<"N", ".", "K">>, <<"A", ".", "*">>, <<"B", ".", "*">>}

QuerierSymbols ==
    {<<"K">>, <<"M">>, <<"X">>, <<"K", ".", "M">>, <<"X", ".", "M">>,
     <<"N", ".", "K", ".", "M">>, <<"K", ".", "X", ".", "M">>}

QuerierInit ==
    /\ AtRest
    /\ args \in {[fn |-> "querier", graph |-> QuerierGraph(sh, rel), query |-> q,
                   flavour |-> fl, symbol |-> y, analysis_mode |-> m,
                   source_type |-> get_source_type(ProjectNew(AnalysisModeFrom(m)))] :
                     sh \in StoredShapes, rel \in BOOLEAN, q \in QuerierQueries,
                     fl \in {"all", "method"}, y \in QuerierSymbols,
                     m \in ConfigModes}
    /\ ret = NoRet
    /\ resolver = NoResolver

\* T::get_matcher on the definition roots, then the matcher's match_symbol
GetMatcherMatchSymbol ==
    /\ ret.fn = "none"
    /\ args.fn = "querier"
    /\ \E search \in {create_search(args.query)} :
         \E matcher \in {get_matcher(args.flavour, args.graph,
                                      definition_root_nodes(args.graph, search), search)} :
            ret' = [fn |-> "match_symbol", matcher |-> matcher,
                    value |-> symbol_in_namespace(matcher, args.symbol)]
    /\ UNCHANGED <<progvars, args, resolver>>

\* Querier::query, the referenced files iterated in some order
QuerierQueryRun ==
    /\ ret.fn = "none"
    /\ args.fn = "querier"
    /\ \E order \in ReferencedOrders(args.graph, args.query) :
         ret' = [fn |-> "query", order |-> order,
                 value |-> QuerierQuery(args.graph, args.source_type, args.flavour,
                                        args.query, order)]
    /\ UNCHANGED <<progvars, args, resolver>>

QuerierNext == GetMatcherMatchSymbol \/ QuerierQueryRun

QuerierSpec == QuerierInit /\ [][QuerierNext]_vars

(***************************************************************************)
(* Dependencies::read_packet_cache_file on its own.  A line of the cache   *)
(* file is a string, here a sequence of characters; strings compare as     *)
(* Rust compares them, character by character in code-point order.         *)
(***************************************************************************)
\* the characters of the lines below, in code-point order
CodePoints ==
    <<" ", ".", "/", "4", "5", ":", "D", "F", "b", "d", "i", "l", "m", "n", "x", "y">>

\* a <= b for strings
RECURSIVE StrLeq(_, _)
StrLeq(a, b) ==
    IF a = <<>> THEN TRUE
    ELSE IF b = <<>> THEN FALSE
    ELSE IF Head(a) = Head(b) THEN StrLeq(Tail(a), Tail(b))
    ELSE PositionIn(CodePoints, Head(a)) < PositionIn(CodePoints, Head(b))

\* str::contains
StrContains(s, sub) == \E i \in 1..(Len(s) - Len(sub) + 1) : SubSeq(s, i, i + Len(sub) - 1) = sub

\* str::replace
RECURSIVE StrReplace(_, _, _)
StrReplace(s, from, to) ==
    IF s = <<>> THEN <<>>
    ELSE IF IsPrefix(from, s)
    THEN to \o StrReplace(SubSeq(s, Len(from) + 1, Len(s)), from, to)
    ELSE <<Head(s)>> \o StrReplace(Tail(s), from, to)

\* "D: /lib/", "F: /lib/" and ".dll"
LibDirectory == <<"D", ":", " ", "/", "l", "i", "b", "/">>

LibFile == <<"F", ":", " ", "/", "l", "i", "b", "/">>

DllSuffix == <<".", "d", "l", "l">>

\* the lines a cache file is made of: the directories /lib/n4 and /lib/n45, a .dll in
\* each, a .dll one level further down and a file that is no .dll
CacheLines ==
    {LibDirectory \o <<"n", "4">>,
     LibFile \o <<"n", "4", "/", "x">> \o DllSuffix,
     LibDirectory \o <<"n", "4", "5">>,
     LibFile \o <<"n", "4", "5", "/", "y">> \o DllSuffix,
     LibFile \o <<"n", "4", "5", "/", "d", "/", "x">> \o DllSuffix,
     LibFile \o <<"n", "4", "5", "/", "y", ".", "x", "m", "l">>}

\* the framework restrictions read_packet_dependency_file hands down
Restrictions == {<<"n", "4">>, <<"n", "4", "5">>}

\* the number of lines of a cache file
MaxLines == 4

\* the while loop over the lines, with the locals of the function
RECURSIVE cache_file_lines(_, _, _, _, _)
cache_file_lines(lines, top_of_version, valid_dir_to_search, valid_file_match_start, dlls) ==
    IF lines = <<>> THEN dlls
    ELSE LET line == Head(lines)
             selects == /\ StrContains(line, LibDirectory)
                        /\ StrLeq(line, top_of_version)
                        /\ \/ valid_file_match_start = <<>>
                           \/ ~StrLeq(line, valid_dir_to_search)
             dir == IF selects THEN line ELSE valid_dir_to_search
             start == IF selects THEN StrReplace(line, <<"D", ":">>, <<"F", ":">>)
                      ELSE valid_file_match_start
             kept == IF selects THEN <<>> ELSE dlls
             pushes == /\ StrContains(line, DllSuffix)
                       /\ dir # <<>>
                       /\ IsPrefix(start, line)
         IN cache_file_lines(Tail(lines), top_of_version, dir, start,
                             IF pushes THEN Append(kept, line) ELSE kept)

read_packet_cache_file(lines, restriction) ==
    cache_file_lines(lines, LibDirectory \o restriction, <<>>, <<>>, <<>>)

CacheInit ==
    /\ AtRest
    /\ args \in {[fn |-> "read_packet_cache_file", lines |-> ls, restriction |-> r] :
                   ls \in {x \in SeqsUpTo(CacheLines, MaxLines) :
                             \A i, j \in 1..Len(x) : x[i] = x[j] => i = j},
                   r \in Restrictions}
    /\ ret = NoRet
    /\ resolver = NoResolver

ReadPacketCacheFile ==
    /\ ret.fn = "none"
    /\ args.fn = "read_packet_cache_file"
    /\ ret' = [fn |-> "read_packet_cache_file",
               value |-> read_packet_cache_file(args.lines, args.restriction)]
    /\ UNCHANGED <<progvars, args, resolver>>

CacheSpec == CacheInit /\ [][ReadPacketCacheFile]_vars

(***************************************************************************)
(* The three traversals call by call: Querier::traverse_node_search from a *)
(* compilation unit, NamespaceSymbols::traverse_node and                   *)
(* MethodSymbols::traverse_node from the definition roots.  Each call      *)
(* loops over the outgoing edges of its node, keeps the sinks of the       *)
(* ordinary ones, collects those that pass its test, and then calls itself *)
(* on every sink kept.  `frames` holds, for every call that has not        *)
(* returned, the sinks it has still to call; none of the three keeps a set *)
(* of nodes already visited.  Stored files of further shapes:              *)
(*   "diamond"   namespace N with classes K and L, both leading to method  *)
(*               M by an ordinary edge;                                    *)
(*   "cycle"     namespace N, class K, method M, and an ordinary edge from *)
(*               M back to N;                                              *)
(*   "usecycle"  a compilation unit naming K and K.M, with ordinary edges  *)
(*               from each of the two names to the other.                  *)
(***************************************************************************)
TraverseFile(shape) ==
    CASE shape = "diamond" ->
           [nodes |-> <<MarkerNode(SOURCE_STRING), CompUnit,
                        TNode(<<"N">>, "namespace_declaration", 1),
                        TNode(<<"K">>, "class_def", 2), TNode(<<"L">>, "class_def", 3),
                        TNode(<<"M">>, "method_name", 4)>>,
            edges |-> {TEdge(1, 2, 0), TEdge(2, 3, 0), TEdge(3, 4, 0), TEdge(3, 5, 0),
                       TEdge(4, 6, 0), TEdge(5, 6, 0), TEdge(4, 3, FqdnPrecedence),
                       TEdge(5, 3, FqdnPrecedence), TEdge(6, 4, FqdnPrecedence)}]
      [] shape = "cycle" ->
           [nodes |-> <<MarkerNode(SOURCE_STRING), CompUnit,
                        TNode(<<"N">>, "namespace_declaration", 1),
                        TNode(<<"K">>, "class_def", 2), TNode(<<"M">>, "method_name", 3)>>,
            edges |-> {TEdge(1, 2, 0), TEdge(2, 3, 0), TEdge(3, 4, 0), TEdge(4, 5, 0),
                       TEdge(5, 3, 0), TEdge(4, 3, FqdnPrecedence),
                       TEdge(5, 4, FqdnPrecedence)}]
      [] shape = "usecycle" ->
           [nodes |-> <<MarkerNode(SOURCE_STRING), CompUnit, TNode(<<"N">>, "import", 1),
                        TNode(<<"K">>, "name", 2), TNode(<<"K", ".", "M">>, "name", 3)>>,
            edges |-> {TEdge(1, 2, 0), TEdge(2, 3, 0), TEdge(2, 4, 0), TEdge(4, 5, 0),
                       TEdge(5, 4, 0)}]
      [] OTHER -> StoredFile(shape)

TraverseShapes ==
    {sh \in [{FileA, FileB} -> {"absent", "use", "def", "diamond", "cycle", "usecycle"}] :
        sh[FileA] # "absent" /\ sh[FileB] \in {"absent", "use", "def"}}

TraverseGraph(sh) ==
    LET present == SelectSeq(<<FileA, FileB>>, LAMBDA f : sh[f] # "absent")
    IN LoadAll(StackGraphNew, present, [f \in DOMAIN sh |-> TraverseFile(sh[f])])

\* the search of the matchers: N.*
TraverseSearch == create_search(<<"N", ".", "*">>)

\* the matcher the result traversal is handed: the names of a namespace matcher
TraverseMatcher == [flavour |-> "namespace", names |-> {<<"K">>, <<"M">>}, fqdns |-> {}]

\* the nodes the first calls are made on
TraverseStarts(g, kind) ==
    IF kind = "traverse_node_search"
    THEN {<<n>> : n \in {m \in 1..Len(g.nodes) : IsStartKind(g, m, "comp_unit")}}
    ELSE {definition_root_nodes(g, TraverseSearch)}

\* whether the call on `node` collects the sink n of an ordinary edge
Collects(kind, g, n) ==
    /\ g.nodes[n].symbol # 0
    /\ g.nodes[n].kind # ""
    /\ CASE kind = "traverse_node_search" -> symbol_in_namespace(TraverseMatcher, SymbolOf(g, n))
         [] kind = "NamespaceSymbols::traverse_node" ->
              /\ match_symbol(TraverseSearch, SymbolOf(g, n))
              /\ g.nodes[n].kind \in {"method_name", "class_def"}
         [] OTHER ->
              /\ match_symbol(TraverseSearch, SymbolOf(g, n))
              /\ g.nodes[n].kind = "method_name"

TraverseInit ==
    /\ ingest = NoIngest
    /\ disk = [p \in AllPaths |-> "absent"]
    /\ env = [langOk |-> TRUE, paketOk |-> TRUE, decompiled |-> "nothing"]
    /\ store = [exists |-> FALSE, entries |-> {}]
    /\ project = NoProject
    /\ config = "none"
    /\ pc = "idle"
    /\ projectLock = "free"
    /\ tasks = {}
    /\ initLog = <<>>
    /\ initResp = NoInitResp
    /\ evalResp = NoEvalResp
    /\ builds = <<>>
    /\ builderLog = {}
    /\ nInit = 0
    /\ ret = NoRet
    /\ resolver = NoResolver
    /\ \E sh \in TraverseShapes :
       \E kind \in {"traverse_node_search", "NamespaceSymbols::traverse_node",
                    "MethodSymbols::traverse_node"} :
       \E start \in TraverseStarts(TraverseGraph(sh), kind) :
          /\ args = [fn |-> kind, graph |-> TraverseGraph(sh)]
          /\ frames = [state |-> "running", stack |-> <<start>>, visits |-> <<>>,
                       collected |-> <<>>]

travvars == <<disk, env, store, project, config, pc, projectLock, tasks, initLog, initResp,
              evalResp, builds, builderLog, nInit, args, ret, resolver, ingest>>

\* a call: the next node of the innermost loop is taken, its edges are looped over
\* and the loop over the sinks kept begins.  A chain of calls longer than the graph
\* has nodes holds some node twice: the calls between the two repeat without end.
TraverseCall ==
    /\ frames.state = "running"
    /\ frames.stack # <<>>
    /\ Last(frames.stack) # <<>>
    /\ \E node \in {Head(Last(frames.stack))} :
       \E sinks \in {OrdinarySinks(args.graph, node)} :
          frames' =
             [state |-> IF Len(frames.stack) > Len(args.graph.nodes)
                        THEN "unbounded" ELSE "running",
              stack |-> Append([frames.stack EXCEPT ![Len(frames.stack)] = Tail(@)], sinks),
              visits |-> Append(frames.visits, node),
              collected |-> frames.collected
                               \o SelectSeq(sinks, LAMBDA n : Collects(args.fn, args.graph, n))]
    /\ UNCHANGED travvars

\* the loop of the innermost call is over: the call returns; the traversal has
\* returned when the loop over the start nodes is over
TraverseReturn ==
    /\ frames.state = "running"
    /\ frames.stack # <<>>
    /\ Last(frames.stack) = <<>>
    /\ frames' = [frames EXCEPT
                    !.stack = SubSeq(@, 1, Len(@) - 1),
                    !.state = IF Len(frames.stack) = 1 THEN "returned" ELSE "running"]
    /\ UNCHANGED travvars

TraverseNext == TraverseCall \/ TraverseReturn

TraverseSpec == TraverseInit /\ [][TraverseNext]_vars

(***************************************************************************)
(* Ingestion step by step: Project::get_project_graph ingesting the        *)
(* project location through loader::init_stack_graph, then                 *)
(* Project::load_to_database with its dependency tasks.  The handler is    *)
(* CSharpProvider::init, which holds the project mutex from the second     *)
(* lock to its return.  One step is the code between two points where a    *)
(* task can be suspended or pre-empted: one file of the source walk with   *)
(* its store write, the directory walk of one task, one store write of one *)
(* task.  A store write either is applied or returns an error.  `ingest`   *)
(* holds the locks of the handler, the graph under construction, the store *)
(* writes made, and the locks held at every write of the project graph.    *)
(***************************************************************************)
\* what the `?` operators make of one file, with the error of the store write dropped
ingest_outcome_ignoring_store(r, stored) == IF ~r.ok THEN "Err" ELSE "Ok"

\* what the `?` operators make of one file: the Builder's error or the store's
ingest_outcome(r, stored) ==
    IF ~r.ok THEN "Err" ELSE IF r.loaded /\ ~stored THEN "Err" ELSE "Ok"

\* the loop over the joined results without its test
join_all_result_unchecked(ts) == "Ok"

\* the loop over the results of set.join_all(): the first error is returned
join_all_result(ts) == IF \E t \in ts : t.state = "err" THEN "Err" ELSE "Ok"

\* what Project::resolve may have left in the project's dependencies
IngestDependencies ==
    {<<>>,
     <<[name |-> "d1", decompiled_location |-> {DecompiledDir}]>>,
     <<[name |-> "d1", decompiled_location |-> {DecompiledDir}],
       [name |-> "d2", decompiled_location |-> {DecompiledDir2}]>>}

\* the record of one store write; `by` is the directory whose ingestion made it
WriteOf(by, g, path, tag) ==
    [by |-> by, path |-> path, tag |-> tag, sub |-> to_serializable_file(g, path)]

\* the handler stands in init_stack_graph, the database opened, the project mutex and
\* the read guard of the language configuration held.  The decompiled files are on
\* the disk from an earlier run, or appear with resolve.
IngestInit ==
    /\ \E d \in {x \in [AllPaths -> {"absent", "use", "def", "bad", "text"}] :
                   /\ x[FileA] \in {"use", "def"}
                   /\ x[FileB] \in {"absent", "bad"}
                   /\ x[FileT] = "text"
                   /\ x[FileD] \in {"absent", "def", "bad"}
                   /\ x[FileE] \in {"absent", "use", "bad"}} :
       \E fresh \in BOOLEAN :
         /\ disk = IF fresh THEN [d EXCEPT ![FileD] = "absent", ![FileE] = "absent"] ELSE d
         /\ \E deps \in IngestDependencies :
            \E walk \in Orderings(FilesUnder(disk, Location)) :
              ingest = [state |-> "running", resolved_disk |-> d, dependencies |-> deps,
                        walk |-> walk,
                        stack_graph |-> add_from_graph(StackGraphNew, LC.builtins, 1),
                        held |-> {"project", "language_configuration"},
                        graph_writes |-> <<>>, writes |-> <<>>, built |-> StackGraphNew,
                        result |-> "none", failures |-> {}]
    /\ env = [langOk |-> TRUE, paketOk |-> TRUE, decompiled |-> "nothing"]
    /\ store = [exists |-> TRUE, entries |-> {}]
    /\ project = [ProjectNew("Full") EXCEPT !.hasLc = TRUE]
    /\ config = "full"
    /\ pc = "ingesting"
    /\ projectLock = "init"
    /\ tasks = {}
    /\ initLog = <<>>
    /\ initResp = NoInitResp
    /\ evalResp = NoEvalResp
    /\ builds = <<>>
    /\ builderLog = {}
    /\ nInit = 1
    /\ args = NoArgs
    /\ ret = NoRet
    /\ resolver = NoResolver
    /\ frames = NoFrames

ingestfixed == <<env, config, initLog, initResp, evalResp, builds, builderLog, nInit, args,
                 ret, resolver, frames>>

\* the component that failed on a file, if one did
FailureOf(r, stored) ==
    IF ~r.ok THEN {"builder"} ELSE IF r.loaded /\ ~stored THEN {"store"} ELSE {}

\* the error return of the handler: every guard is dropped
IngestFails(failure) ==
    /\ ingest' = [ingest EXCEPT !.result = "Err", !.failures = @ \cup failure,
                                !.held = {}]
    /\ pc' = "returned"
    /\ projectLock' = "free"

\* one file of init_stack_graph's walk
SourceFile ==
    /\ pc = "ingesting"
    /\ ingest.walk # <<>>
    /\ LET path == Head(ingest.walk)
       IN \E r \in {load_graph_for_file(path, disk[path], ingest.stack_graph,
                                         LC.source_type_node_info)} :
          \E stored \in (IF r.ok /\ r.loaded THEN BOOLEAN ELSE {TRUE}) :
            IF ingest_outcome(r, stored) = "Err"
            THEN /\ IngestFails(FailureOf(r, stored))
                 /\ UNCHANGED store
            ELSE /\ ingest' =
                      [ingest EXCEPT
                         !.walk = Tail(@),
                         !.stack_graph = IF r.loaded THEN r.graph ELSE @,
                         !.failures = @ \cup FailureOf(r, stored),
                         !.writes = IF r.loaded /\ stored
                                    THEN Append(@, WriteOf(Location, r.graph, path, r.tag))
                                    ELSE @]
                 /\ store' = IF r.loaded /\ stored
                             THEN [store EXCEPT !.entries =
                                     store_result_for_file(@, r.graph, path, r.tag)]
                             ELSE store
                 /\ UNCHANGED <<pc, projectLock>>
    /\ UNCHANGED <<disk, project, tasks, ingestfixed>>

\* the end of get_project_graph: the graph mutex is taken, the project graph replaced,
\* and the two guards of get_project_graph dropped
SourceDone ==
    /\ pc = "ingesting"
    /\ ingest.walk = <<>>
    /\ project' = [project EXCEPT !.hasGraph = TRUE, !.graph = ingest.stack_graph]
    /\ ingest' = [ingest EXCEPT
                    !.built = ingest.stack_graph,
                    !.graph_writes = Append(@, [by |-> "get_project_graph",
                                                held |-> ingest.held \cup {"graph"}]),
                    !.held = {"project"}]
    /\ pc' = "built"
    /\ UNCHANGED <<disk, store, projectLock, tasks, ingestfixed>>

\* resolve has returned; load_to_database locks the dependencies, spawns one task per
\* decompiled location and awaits set.join_all() with the guard alive
IngestSpawn ==
    /\ pc = "built"
    /\ disk' = ingest.resolved_disk
    /\ project' = [project EXCEPT !.hasDeps = TRUE, !.dependencies = ingest.dependencies]
    /\ tasks' = {[dir |-> d, state |-> "spawned", held |-> {}, pending |-> <<>>,
                  graph |-> StackGraphNew] : d \in DecompiledLocations(ingest.dependencies)}
    /\ ingest' = [ingest EXCEPT !.held = @ \cup {"dependencies"}]
    /\ pc' = "joining"
    /\ UNCHANGED <<store, projectLock, ingestfixed>>

\* a task up to its first store write: the read guard of the language configuration
\* is taken, the directory added to a graph of the task's own, and the guard dropped
TaskAddDir(t) ==
    /\ pc = "joining"
    /\ t \in tasks
    /\ t.state = "spawned"
    /\ \E walk \in Orderings(FilesUnder(disk, t.dir)) :
       \E r \in {add_dir_to_graph(walk, disk, LC.dependnecy_type_node_info,
                                   load_symbols_into_graph(StackGraphNew))} :
         IF project.hasLc /\ r.ok
         THEN /\ \E pending \in Orderings(r.file_to_tag) :
                   tasks' = (tasks \ {t}) \cup
                            {[t EXCEPT !.state = IF pending = <<>> THEN "ok" ELSE "writing",
                                       !.pending = pending, !.graph = r.stack_graph]}
              /\ UNCHANGED ingest
         ELSE /\ tasks' = (tasks \ {t}) \cup {[t EXCEPT !.state = "err"]}
              /\ ingest' = [ingest EXCEPT !.failures = @ \cup {"builder"}]
    /\ UNCHANGED <<disk, store, project, pc, projectLock, ingestfixed>>

\* one store_result_for_file of a task, through the task's own writer
TaskWrite(t) ==
    /\ pc = "joining"
    /\ t \in tasks
    /\ t.state = "writing"
    /\ LET ft == Head(t.pending)
           r == [ok |-> TRUE, loaded |-> TRUE]
       IN \E stored \in BOOLEAN :
            IF ingest_outcome(r, stored) = "Err"
            THEN /\ tasks' = (tasks \ {t}) \cup {[t EXCEPT !.state = "err"]}
                 /\ ingest' = [ingest EXCEPT !.failures = @ \cup FailureOf(r, stored)]
                 /\ UNCHANGED store
            ELSE /\ store' = IF stored
                             THEN [store EXCEPT !.entries =
                                     store_result_for_file(@, t.graph, ft.path, ft.tag)]
                             ELSE store
                 /\ tasks' = (tasks \ {t}) \cup
                             {[t EXCEPT !.pending = Tail(@),
                                        !.state = IF Tail(t.pending) = <<>> THEN "ok"
                                                  ELSE "writing"]}
                 /\ ingest' = [ingest EXCEPT
                                 !.failures = @ \cup FailureOf(r, stored),
                                 !.writes = IF stored
                                            THEN Append(@, WriteOf(t.dir, t.graph,
                                                                   ft.path, ft.tag))
                                            ELSE @]
    /\ UNCHANGED <<disk, project, pc, projectLock, ingestfixed>>

\* set.join_all() has every result: the first error is returned; without one the graph
\* mutex is taken and the project graph replaced by what the store holds
IngestJoin ==
    /\ pc = "joining"
    /\ \A t \in tasks : t.state \in {"ok", "err"}
    /\ IF join_all_result(tasks) = "Err"
       THEN /\ ingest' = [ingest EXCEPT !.result = "Err", !.held = {}]
            /\ UNCHANGED project
       ELSE /\ \E order \in Orderings(StoredUnder(store.entries, Location)) :
                 project' = [project EXCEPT !.hasGraph = TRUE,
                                            !.graph = LoadFromStore(store.entries, order)]
            /\ ingest' = [ingest EXCEPT
                            !.result = "Ok",
                            !.graph_writes = Append(@, [by |-> "load_to_database",
                                                        held |-> ingest.held \cup {"graph"}]),
                            !.held = {}]
    /\ pc' = "returned"
    /\ projectLock' = "free"
    /\ UNCHANGED <<disk, store, tasks, ingestfixed>>

IngestNext ==
    \/ SourceFile
    \/ SourceDone
    \/ IngestSpawn
    \/ \E t \in tasks : TaskAddDir(t)
    \/ \E t \in tasks : TaskWrite(t)
    \/ IngestJoin

IngestSpec == IngestInit /\ [][IngestNext]_vars

(***************************************************************************)
(* The properties checked.                                                 *)
(***************************************************************************)
\* a node of the file carries the marker string and has an edge to the file's
\* compilation unit
CarriesMarker(g, path, marker) ==
    \E n \in Range(nodes_for_file(g, path)) :
        /\ SymbolOf(g, n) = marker
        /\ \E e \in outgoing_edges(g, n) : e.sink = file_to_compunit_handle(g, path)

\* Evaluate has answered a well-formed request with a list of incidents
Answered == evalResp.kind = "response" /\ evalResp.successful

\* C1: in source-only mode every incident comes from a traversal started at a file
\* with a node that carries the cached source-marker handle and has an edge to the
\* file's compilation unit, and no file that carries only the dependency marker is
\* traversed
C1_SourceOnlyFilter ==
    (Answered /\ project.analysis_mode = "SourceOnly") =>
        /\ \A i \in 1..Len(evalResp.incident_contexts) :
             \E f \in Range(evalResp.traversed) :
                UrlFromFilePath(f).url = evalResp.incident_contexts[i].file_uri
        /\ \A f \in Range(evalResp.traversed) :
             /\ HasSourceTypeNode(project.graph, f, get_source_type(project),
                                  file_to_compunit_handle(project.graph, f))
             /\ ~(/\ CarriesMarker(project.graph, f, DEPENDENCY_STRING)
                  /\ ~CarriesMarker(project.graph, f, SOURCE_STRING))

StepNames(log) == [i \in 1..Len(log) |-> log[i].step]

\* C2: Init answers successful=true only after validate_language, build_graph,
\* resolve and load_dependencies_to_store have run in that order and each succeeded
C2_InitSuccessAfterAllSteps ==
    (initResp.kind = "response" /\ initResp.successful) =>
        /\ StepNames(initResp.steps) =
              <<"validate_language", "build_graph", "resolve", "load_dependencies_to_store">>
        /\ \A i \in 1..Len(initResp.steps) : initResp.steps[i].ok

\* C3: when a step of Init has failed, what Init returns reports the failure with
\* successful=false and a non-empty error string (an RPC status that carries a
\* message is taken here as such a report)
C3_InitFailureReported ==
    (initResp.kind # "none" /\ \E i \in 1..Len(initResp.steps) : ~initResp.steps[i].ok) =>
        /\ ~initResp.successful
        /\ initResp.error # ""

\* the last Init has returned and one of its steps failed
LastInitFailed == nInit > 0 /\ pc = "idle" /\ \E i \in 1..Len(initLog) : ~initLog[i].ok

\* C4: an Evaluate issued before any Init, or after an Init in which a step failed,
\* returns an error and no list of incidents
C4_EvaluateOnlyWhenReady ==
    (evalResp.kind # "none" /\ (nInit = 0 \/ LastInitFailed)) => ~Answered

\* the outcome the specification gives for a pattern that does not compile
FailsAtCompilation ==
    /\ evalResp.kind = "response"
    /\ ~evalResp.successful
    /\ evalResp.error # ""
    /\ ~evalResp.hasResponse
    /\ evalResp.incident_contexts = <<>>
    /\ evalResp.traversed = <<>>

\* C5 as stated: a pattern with an invalid regex fragment (an unclosed bracket) makes
\* Evaluate answer successful=false with an error, no body and no traversal
C5_InvalidFragmentFails ==
    (evalResp.kind = "response" /\ Contains(evalResp.pattern, "[")) => FailsAtCompilation

\* a dotted part of the pattern holds a star and an unclosed bracket
InvalidStarPart(pattern) ==
    \E i \in 1..Len(SplitDot(pattern)) :
        Contains(SplitDot(pattern)[i], "*") /\ Contains(SplitDot(pattern)[i], "[")

\* C5 amended: on a project with a graph, Evaluate fails at compilation exactly when
\* a dotted part that holds a star is not a valid regex; an invalid fragment in a
\* part without a star is compared literally and the request is answered
C5_InvalidStarPartFails ==
    (evalResp.kind = "response" /\ project.hasGraph /\ project.hasLc) =>
        IF InvalidStarPart(evalResp.pattern) THEN FailsAtCompilation
        ELSE evalResp.successful /\ evalResp.hasResponse

\* C5 witness: Evaluate on a project with a graph has refused a pattern whose starred
\* part holds an unclosed bracket
C5_Witness ==
    /\ evalResp.kind = "response"
    /\ project.hasGraph
    /\ Len(project.graph.files) > 0
    /\ InvalidStarPart(evalResp.pattern)
    /\ ~evalResp.successful

\* the file URIs of the world in lexicographic order
UriOrder ==
    <<UrlFromFilePath(FileA).url, UrlFromFilePath(FileB).url, UrlFromFilePath(FileD).url>>

UriRank(uri) == CHOOSE i \in 1..Len(UriOrder) : UriOrder[i] = uri

IncidentLeq(a, b) ==
    \/ UriRank(a.file_uri) < UriRank(b.file_uri)
    \/ a.file_uri = b.file_uri /\ a.line_number <= b.line_number

\* C6: the incident list is sorted by (file_uri, line_number), and is the list the
\* same request gets under every iteration order of the set of referenced files
C6_IncidentsSorted ==
    Answered =>
        /\ \A i, j \in 1..Len(evalResp.incident_contexts) :
             i < j => IncidentLeq(evalResp.incident_contexts[i], evalResp.incident_contexts[j])
        /\ \A order \in ReferencedOrders(project.graph, evalResp.pattern) :
             FindNodeRun(project, evalResp.flavour, evalResp.pattern, order).results
                = evalResp.incident_contexts

\* C7: in the graph the project hands to the Evaluator the two marker strings are the
\* first two symbols, so the cached source-marker handle denotes the source marker
C7_MarkersFirst ==
    (project.hasGraph /\ Len(project.graph.files) > 0) =>
        /\ Len(project.graph.symbols) >= 2
        /\ project.graph.symbols[1] = SOURCE_STRING
        /\ project.graph.symbols[2] = DEPENDENCY_STRING
        /\ project.graph.symbols[LC.source_type_node_info.symbol_handle] = SOURCE_STRING

\* the source type Evaluate uses for a project of the given analysis mode
SourceTypeOf(mode) == get_source_type([analysis_mode |-> mode])

\* the well-formed requests
Queries == {r \in Requests : r.cap = "referenced" /\ r.parses}

\* two builds of the same directory contents in the same analysis mode, both successful
SameDirectory(i, j) ==
    /\ i < j
    /\ builds[i].ok /\ builds[j].ok
    /\ builds[i].disk = builds[j].disk
    /\ builds[i].mode = builds[j].mode

\* C8: two calls of build_graph on the same unchanged directory give the same count of
\* files loaded and, for every pattern, the same list of incidents
C8_BuildGraphIdempotent ==
    (pc = "built") =>
        \A i \in 1..Len(builds) : SameDirectory(i, Len(builds)) =>
            /\ builds[i].files_loaded = Last(builds).files_loaded
            /\ \A r \in Queries :
                 \A o1 \in ReferencedOrders(builds[i].graph, r.pattern) :
                 \A o2 \in ReferencedOrders(Last(builds).graph, r.pattern) :
                    QuerierQuery(builds[i].graph, SourceTypeOf(builds[i].mode), r.flavour,
                                 r.pattern, o1).results
                      = QuerierQuery(Last(builds).graph, SourceTypeOf(builds[i].mode),
                                     r.flavour, r.pattern, o2).results

\* C9: the Builder is never invoked for a file whose stored tag is the tag of its
\* current bytes, and a build_graph that follows a successful one on unchanged files
\* invokes the Builder zero times
C9_UnchangedFilesSkipBuilder ==
    /\ builderLog = {}
    /\ \A j \in 2..Len(builds) :
         (builds[j - 1].ok /\ builds[j - 1].disk = builds[j].disk) => builds[j].builderCalls = 0

\* the store's entries under a directory are one per accepted file there, each tagged
\* with the SHA-1 of the file's bytes, and no other file has an entry
ExactlyAccepted(dir) ==
    LET under == {e \in store.entries : IsPrefix(dir, e.path)}
    IN /\ {e.path : e \in under} = {p \in FilesUnder(disk, dir) : p[Len(p)] = "cs"}
       /\ Cardinality(under) = Cardinality({e.path : e \in under})
       /\ \A e \in under : e.tag = <<"sha1-base64-nopad", disk[e.path]>>

\* C10: after an ingestion that completed successfully (of the project directory by
\* build_graph, of a decompiled directory by a dependency task) the store holds
\* exactly one entry per accepted file under the root, tagged with the SHA-1 of the
\* bytes read; files not accepted have no entry and did not fail the ingestion
C10_StoreAfterIngestion ==
    /\ (pc = "built" /\ ~Last(builds).fromStore) => ExactlyAccepted(Location)
    /\ (pc = "loading") => \A t \in tasks : t.state = "ok" => ExactlyAccepted(t.dir)

\* C10 witness: build_graph has ingested a directory with two C# files and a text file
C10_Witness ==
    /\ pc = "built"
    /\ ~Last(builds).fromStore
    /\ disk[FileT] # "absent"
    /\ Cardinality(store.entries) = 2
    /\ ExactlyAccepted(Location)

(***************************************************************************)
(* Properties of the Search, checked under SearchSpec.                     *)
(***************************************************************************)
Min(a, b) == IF a < b THEN a ELSE b

SearchParts == create_search(args.query).parts

\* C11: partial_namespace(s) and match_namespace(s) are both true exactly when every
\* component of s at a position that both s and the pattern have is matched by the
\* part at that position; components beyond the pattern and parts beyond s never
\* cause a mismatch
C11_NamespacePrefixRule ==
    (ret.fn \in {"partial_namespace", "match_namespace"}) =>
        ret.value = (\A i \in 1..Min(Len(SplitDot(args.symbol)), Len(SearchParts)) :
                        matches(SearchParts[i], SplitDot(args.symbol)[i]))

\* C11 witness: one of the two predicates has accepted a symbol whose number of
\* components differs from the pattern's, so only the common prefix was compared
C11_Witness ==
    /\ ret.fn \in {"partial_namespace", "match_namespace"}
    /\ ret.value
    /\ Len(SplitDot(args.symbol)) # Len(SearchParts)

\* the whole of s matches the part p, each star standing for any run of tokens
RECURSIVE GlobMatch(_, _)
GlobMatch(p, s) ==
    IF p = <<>> THEN s = <<>>
    ELSE IF Head(p) = "*"
         THEN \E k \in 0..Len(s) : GlobMatch(Tail(p), SubSeq(s, k + 1, Len(s)))
    ELSE s # <<>> /\ Head(s) = Head(p) /\ GlobMatch(Tail(p), Tail(s))

\* C12: a part without a star matches a string only by equality, and a part with a
\* star only when the whole string matches it, each star standing for any run of
\* characters (asked of the last part through match_symbol)
C12_FullMatch ==
    (ret.fn = "match_symbol") =>
        ret.value = (IF Contains(Last(SearchParts).part, "*")
                     THEN GlobMatch(Last(SearchParts).part, args.symbol)
                     ELSE Last(SearchParts).part = args.symbol)

\* C13: match_symbol(s) is the answer of the last part of the pattern; the pattern
\* star matches every leaf; the pattern star-dot-star has exactly two parts and
\* matches every symbol of two components
C13_LeafIsLastPart ==
    /\ (ret.fn = "match_symbol") => ret.value = matches(Last(SearchParts), args.symbol)
    /\ (ret.fn = "match_symbol" /\ args.query = <<"*">>) => ret.value
    /\ (args.query = <<"*", ".", "*">>) =>
          /\ Len(SearchParts) = 2
          /\ (ret.fn # "none" /\ Len(SplitDot(args.symbol)) = 2) => ret.value

\* C13 witness: the pattern star-dot-star has been asked about a symbol of two
\* components and has matched it
C13_Witness ==
    /\ args.query = <<"*", ".", "*">>
    /\ Len(SplitDot(args.symbol)) = 2
    /\ ret.fn = "match_symbol"
    /\ ret.value

(***************************************************************************)
(* Properties of resolve, checked under ResolveSpec.                       *)
(***************************************************************************)
\* the output directories of all the DLLs of a package
AllOutputs(n) ==
    {decompile_out_name(n, resolver.packages[n].dlls[i]) :
        i \in 1..Len(resolver.packages[n].dlls)}

\* the decompilation of the dependency cannot succeed: its package directory or its
\* cache is missing, or the decompiler cannot be run on one of its DLLs
DecompileFails(n) ==
    \/ resolver.packages[n].state # "ok"
    \/ \E i \in 1..Len(resolver.packages[n].dlls) : resolver.packages[n].dlls[i].output = "Err"

ChainUp == SubSeq(args.kinds, 1, args.node - 2)

RECURSIVE JoinDots(_)
JoinDots(names) ==
    IF Len(names) = 1 THEN names[1] ELSE names[1] \o <<".">> \o JoinDots(Tail(names))

\* the dot-join of the symbols of the given kind along the chain, if there is any
JoinOfKind(kind) ==
    LET at == SelectSeq([i \in 1..Len(ChainUp) |-> i], LAMBDA i : ChainUp[i] = kind)
    IN IF at = <<>> THEN None ELSE Some(JoinDots([j \in 1..Len(at) |-> <<ChainSymbols[at[j]]>>]))

\* C17: on a chain of namespace, class and method declarations, get_fqdn gives each of
\* namespace, class and method at most one string, the dot-join of the symbols of
\* that kind along the chain; namespaces A, B, C nested with class K give
\* (namespace A.B.C, class K, no method)
C17_FqdnJoinsByKind ==
    /\ (ret.fn = "get_fqdn" /\ \A i \in 1..Len(ChainUp) : IsFqdnKind(ChainUp[i])) =>
          ret.value = [some |-> TRUE,
                       namespace |-> JoinOfKind("namespace_declaration"),
                       class |-> JoinOfKind("class_def"),
                       method |-> JoinOfKind("method_name")]
    /\ (/\ ret.fn = "get_fqdn"
        /\ ChainUp = <<"namespace_declaration", "namespace_declaration",
                       "namespace_declaration", "class_def">>) =>
          ret.value = [some |-> TRUE,
                       namespace |-> Some(<<"A", ".", "B", ".", "C">>),
                       class |-> Some(<<"K">>),
                       method |-> None]

\* C17 witness: get_fqdn has been asked about the class K nested in A, B and C
C17_Witness ==
    /\ ret.fn = "get_fqdn"
    /\ ChainUp = <<"namespace_declaration", "namespace_declaration",
                   "namespace_declaration", "class_def">>
    /\ ret.value.namespace = Some(<<"A", ".", "B", ".", "C">>)

\* C18: when a node on the chain has a kind other than namespace_declaration,
\* class_def or method_name, get_fqdn reports no namespace, no class and no method,
\* wherever on the chain that node is
C18_ForeignKindGivesEmpty ==
    (ret.fn = "get_fqdn" /\ \E i \in 1..Len(ChainUp) : ~IsFqdnKind(ChainUp[i])) =>
        /\ ~ret.value.namespace.some
        /\ ~ret.value.class.some
        /\ ~ret.value.method.some

(***************************************************************************)
(* Properties of the Querier, checked under QuerierSpec.                   *)
(***************************************************************************)
\* the nodes reachable from the set S over the edges whose precedence is not 10
RECURSIVE ReachOrdinary(_, _)
ReachOrdinary(g, S) ==
    LET T == S \cup {e.sink : e \in {x \in g.edges : x.source \in S /\ x.precedence # 10}}
    IN IF T = S THEN S ELSE ReachOrdinary(g, T)

QSearch == create_search(args.query)

QRoots == Range(definition_root_nodes(args.graph, QSearch))

QMatcher ==
    get_matcher(args.flavour, args.graph, definition_root_nodes(args.graph, QSearch), QSearch)

\* the lines of the incidents emitted for a file
EmittedLines(f) ==
    {ret.value.results[i].line_number :
        i \in {j \in 1..Len(ret.value.results) :
                 ret.value.results[j].file_uri = UrlFromFilePath(f).url}}

\* C15: matcher construction and result traversal visit exactly the nodes reachable
\* from their start node over edges whose precedence is not 10, and nothing is
\* collected or emitted for a node outside that set
C15_NoFqdnEdgeFollowed ==
    /\ (ret.fn = "match_symbol") =>
          \A root \in QRoots :
             /\ traverse_visits(args.graph, root) = ReachOrdinary(args.graph, {root})
             /\ MatcherSinks(args.graph, root, QSearch)
                   = {n \in ReachOrdinary(args.graph, {root}) \ {root} :
                        /\ args.graph.nodes[n].symbol # 0
                        /\ match_symbol(QSearch, SymbolOf(args.graph, n))}
    /\ (ret.fn = "query") =>
          \A f \in Range(ret.value.traversed) :
             /\ traverse_visits(args.graph, file_to_compunit_handle(args.graph, f))
                   = ReachOrdinary(args.graph, {file_to_compunit_handle(args.graph, f)})
             /\ EmittedLines(f)
                   = {args.graph.nodes[n].line :
                        n \in {m \in ReachOrdinary(args.graph,
                                     {file_to_compunit_handle(args.graph, f)})
                                   \ {file_to_compunit_handle(args.graph, f)} :
                                 /\ args.graph.nodes[m].kind # ""
                                 /\ symbol_in_namespace(QMatcher, SymbolOf(args.graph, m))}}

\* a node of the graph that only an edge of precedence 10 leads to
BehindFqdnEdge(start) ==
    \E e \in args.graph.edges :
        /\ e.precedence = 10
        /\ e.source \in ReachOrdinary(args.graph, {start})
        /\ e.sink \notin ReachOrdinary(args.graph, {start})

\* C15 witness: a query has traversed a file in which an edge of precedence 10 leads
\* from a visited node to a class the matcher accepts, and has emitted nothing for it
C15_Witness ==
    /\ ret.fn = "query"
    /\ args.flavour = "all"
    /\ \E f \in Range(ret.value.traversed) :
          /\ BehindFqdnEdge(file_to_compunit_handle(args.graph, f))
          /\ symbol_in_namespace(QMatcher, <<"X">>)
          /\ EmittedLines(f) = {}

\* the referenced files that phase 3 is to traverse: those with a compilation unit
\* and a path that makes a URL which, in source-only mode, carry the source marker
ToTraverse ==
    {f \in referenced_files(args.graph, QSearch) :
        /\ file_to_compunit_handle(args.graph, f) # 0
        /\ UrlFromFilePath(f).ok
        /\ args.source_type.type = "Source" =>
              HasSourceTypeNode(args.graph, f, args.source_type,
                                file_to_compunit_handle(args.graph, f))}

\* C16: a referenced file without a compilation unit, or whose path makes no URL, is
\* skipped and every other referenced file is traversed, in whatever order the
\* referenced files are visited
C16_SkipAndContinue ==
    (ret.fn = "query" /\ ret.value.ok) => Range(ret.value.traversed) = ToTraverse

\* C19: the method matcher accepts s exactly when s has exactly two dotted parts, a
\* class and a method, and some stored qualified name has that class and method
C19_MethodMatchSymbol ==
    (ret.fn = "match_symbol" /\ args.flavour = "method") =>
        ret.value = (/\ Len(SplitDot(args.symbol)) = 2
                     /\ \E f \in ret.matcher.fqdns :
                          /\ f.class = Some(SplitDot(args.symbol)[1])
                          /\ f.method = Some(SplitDot(args.symbol)[2]))

\* C19 witness: the method matcher holds (N, K, M) and has accepted K.M
C19_Witness ==
    /\ ret.fn = "match_symbol"
    /\ args.flavour = "method"
    /\ args.symbol = <<"K", ".", "M">>
    /\ ret.matcher.fqdns # {}
    /\ ret.value

\* the class_def and method_name nodes reachable from a definition root
ReachableDefinitions ==
    {n \in ReachOrdinary(args.graph, QRoots) :
        args.graph.nodes[n].kind \in {"class_def", "method_name"}}

\* C20 as stated: the namespace matcher accepts s exactly when s is the symbol of a
\* class_def or method_name node reachable from a definition root over ordinary edges
C20_NamespaceMatchSymbol ==
    (ret.fn = "match_symbol" /\ args.flavour = "all") =>
        ret.value = (\E n \in ReachableDefinitions : SymbolOf(args.graph, n) = args.symbol)

\* C20 amended: the namespace matcher accepts s exactly when s is the symbol of a
\* class_def or method_name node reachable from a definition root over ordinary
\* edges and s is matched by the last part of the pattern
C20_NamespaceMatchSymbolOfLeaf ==
    (ret.fn = "match_symbol" /\ args.flavour = "all") =>
        ret.value = (/\ match_symbol(QSearch, args.symbol)
                     /\ \E n \in ReachableDefinitions : SymbolOf(args.graph, n) = args.symbol)

\* C20 witness: with the pattern N.K the namespace matcher has accepted the class K
C20_Witness ==
    /\ ret.fn = "match_symbol"
    /\ args.flavour = "all"
    /\ args.query = <<"N", ".", "K">>
    /\ args.symbol = <<"K">>
    /\ ret.value

(***************************************************************************)
(* Analysis mode (QuerierSpec).                                            *)
(***************************************************************************)
\* the referenced files of the query that have a compilation unit
WithCompUnit ==
    {f \in referenced_files(args.graph, QSearch) : file_to_compunit_handle(args.graph, f) # 0}

\* C30: under any analysis_mode string other than source-only the source type is the
\* dependency one (full mode), and a query that compiles traverses every referenced
\* file that has a compilation unit
C30_FullModeTraversesAll ==
    (ret.fn = "query" /\ args.analysis_mode # "source-only") =>
        /\ args.source_type.type = "Dependency"
        /\ ret.value.ok => Range(ret.value.traversed) = WithCompUnit

\* what holds of full mode whatever ends the loop: no file reached by the loop is
\* passed over, the files traversed are a prefix of the iteration order
C30_FullModeSkipsNothing ==
    (ret.fn = "query" /\ args.analysis_mode # "source-only" /\ ret.value.ok) =>
        ret.value.traversed = SubSeq(ret.order, 1, Len(ret.value.traversed))

(***************************************************************************)
(* The file of an incident (QuerierSpec).                                  *)
(***************************************************************************)
\* the nodes of file f that can stand behind an incident at `line`: nodes with a
\* span there whose symbol the matcher of the query accepts
IncidentNodes(f, line) ==
    {n \in 1..Len(args.graph.nodes) :
        /\ args.graph.nodes[n].file = f
        /\ args.graph.nodes[n].line = line
        /\ args.graph.nodes[n].kind # ""
        /\ args.graph.nodes[n].symbol # 0
        /\ symbol_in_namespace(QMatcher, SymbolOf(args.graph, n))}

AcceptedFiles(d) == {p \in FilesUnder(d, Location) : matches_file(p)}

\* C28: a build_graph that follows a failed build_graph on the same store does not
\* succeed with a graph that lacks a file the language configuration accepts
C28_PartialStoreNotReused ==
    \A i, j \in 1..Len(builds) :
        (i < j /\ ~builds[i].ok /\ builds[j].ok) =>
            \A p \in AcceptedFiles(builds[j].disk) : get_file(builds[j].graph, p)

(***************************************************************************)
(* Evaluate while Init is in progress (Spec).                              *)
(***************************************************************************)
\* an Init has been received and has not returned
InitInProgress == pc # "idle"

CandidateDirectories ==
    {l \in Range(args.lines) :
        IsPrefix(LibDirectory, l) /\ StrLeq(l, LibDirectory \o args.restriction)}

\* the largest of them
SelectedDirectory ==
    CHOOSE d \in CandidateDirectories : \A l \in CandidateDirectories : StrLeq(l, d)

\* the .dll file lines of the file that lie in the directory of line d
DllsIn(d) ==
    {l \in Range(args.lines) :
        /\ IsPrefix(StrReplace(d, <<"D", ":">>, <<"F", ":">>) \o <<"/">>, l)
        /\ SubSeq(l, Len(l) - Len(DllSuffix) + 1, Len(l)) = DllSuffix}

\* C22: the DLLs returned are exactly the .dll file lines in the largest /lib/
\* directory not greater than the restriction's, whatever the order of the lines,
\* and none when there is no such directory
C22_DllsOfSelectedDirectory ==
    (ret.fn = "read_packet_cache_file") =>
        Range(ret.value) = IF CandidateDirectories = {} THEN {}
                           ELSE DllsIn(SelectedDirectory)

\* the part that holds in every order: what is returned lies under a prefix that is
\* the selected directory's line
C22_DllsBeginWithSelected ==
    (ret.fn = "read_packet_cache_file") =>
        \A l \in Range(ret.value) :
            /\ CandidateDirectories # {}
            /\ IsPrefix(StrReplace(SelectedDirectory, <<"D", ":">>, <<"F", ":">>), l)

(***************************************************************************)
(* Termination of the traversals (TraverseSpec).                           *)
(***************************************************************************)
\* the ordinary edges of the graph hold a cycle
OrdinaryCycle(g) ==
    \E n \in 1..Len(g.nodes) :
        n \in ReachOrdinary(g, {e.sink : e \in {x \in g.edges : x.source = n /\ x.precedence # 10}})

\* C26: every traversal returns: no chain of calls grows beyond the number of nodes
\* of the graph, whether or not ordinary edges form a cycle or join
C26_TraversalsTerminate == frames.state # "unbounded"

\* without a cycle of ordinary edges the chain of calls stays within the graph, and
\* a node that several paths lead to is called once for each path
C26_TerminatesWithoutCycle ==
    (frames.state \in {"running", "returned", "unbounded"} /\ ~OrdinaryCycle(args.graph)) =>
        /\ frames.state # "unbounded"
        /\ Len(frames.stack) <= Len(args.graph.nodes) + 1

\* a traversal has returned after calling one node twice
C26_CalledTwice ==
    /\ frames.state = "returned"
    /\ \E i, j \in 1..Len(frames.visits) : i < j /\ frames.visits[i] = frames.visits[j]

(***************************************************************************)
(* Dependency ingestion and the project graph (IngestSpec).                *)
(***************************************************************************)
Finished(t) == t.state \in {"ok", "err"}

InLoadToDatabase == pc = "joining" \/ (pc = "returned" /\ tasks # {})

\* C24: the project graph is replaced by the graph merged from the store only after
\* every dependency task has finished; while a task is still running, and when a task
\* has failed, the project graph is the graph build_graph produced.
C24_GraphReplacedAfterAllTasks ==
    InLoadToDatabase =>
        /\ ((\E t \in tasks : ~Finished(t)) \/ (\E t \in tasks : t.state = "err"))
               => project.graph = ingest.built
        /\ (\E w \in Range(ingest.graph_writes) : w.by = "load_to_database")
               => \A t \in tasks : t.state = "ok"

\* load_to_database has returned an error after one task wrote its file to the store
\* and another failed, and the project graph is not what the store holds
C24_Witness ==
    /\ pc = "returned"
    /\ \E t \in tasks : t.state = "err"
    /\ \E t \in tasks : t.state = "ok"
    /\ \E w \in Range(ingest.writes) : w.by \in {DecompiledDir, DecompiledDir2}
    /\ project.graph = ingest.built
    /\ \A order \in Orderings(StoredUnder(store.entries, Location)) :
         LoadFromStore(store.entries, order) # project.graph


\* C21: when the Builder or the store fails on one file during the ingestion of the
\* sources or of a dependency, the ingestion returns an error, and the project graph
\* is not replaced by a graph of the files processed before the failure: after a
\* failure among the sources the project has no graph, after one in a dependency it
\* keeps the graph of the sources.
C21_FailureIsReturned ==
    (ingest.state = "running" /\ ingest.failures # {}) =>
        /\ pc = "returned" => ingest.result = "Err"
        /\ IF tasks = {}
           THEN pc = "returned" /\ ~project.hasGraph /\ project.graph = StackGraphNew
           ELSE project.graph = ingest.built

\* the store failed on a source file after another had been ingested and stored
C21_Witness ==
    /\ pc = "returned"
    /\ ingest.failures = {"store"}
    /\ tasks = {}
    /\ ingest.writes # <<>>
    /\ Len(ingest.stack_graph.files) > 0
    /\ ingest.result = "Err"


\* the store after the writes of a log, each applied whole and in the order of the log
RECURSIVE Replay(_, _)
Replay(entries, writes) ==
    IF writes = <<>> THEN entries
    ELSE LET w == Head(writes)
         IN Replay({e \in entries : e.path # w.path}
                       \cup {[path |-> w.path, tag |-> w.tag, sub |-> w.sub]},
                   Tail(writes))

\* the last write of the log to a path
LastWrite(path) ==
    LET at == {i \in 1..Len(ingest.writes) : ingest.writes[i].path = path}
    IN ingest.writes[CHOOSE i \in at : \A j \in at : j <= i]

C25_NoLockAcrossYield ==
    ingest.state = "running" =>
        /\ \A w \in Range(ingest.graph_writes) : "graph" \in w.held
        /\ (pc = "joining" /\ \E t \in tasks : ~Finished(t)) => ingest.held = {}
        /\ \A t \in tasks : t.held = {}

\* the part of C25 about the graph and the dependency tasks alone
C25_GraphWrittenUnderItsLock ==
    ingest.state = "running" =>
        /\ \A w \in Range(ingest.graph_writes) : "graph" \in w.held
        /\ \A t \in tasks : t.held = {}
        /\ ingest.held \cap {"graph", "language_configuration"} # {} => pc = "ingesting"

====
